---------------------------- MODULE Spec2Model ----------------------------
(***************************************************************************)
(* Model of the prediction-market decision engine: the paper trader        *)
(* (paper-trader.ts, resolver.ts, sizer.ts, the report script) and the     *)
(* Kalshi paper engine.                                                    *)
(*                                                                         *)
(* Units.  Money is counted in cents, prices and probabilities in percent  *)
(* (0..100).  Paper-trader time is counted in halves of                    *)
(* TRADING.cycleIntervalMs, Kalshi time in resolution grace periods.  The  *)
(* arithmetic of the source is floating point; the model computes it       *)
(* exactly.                                                                *)
(***************************************************************************)
EXTENDS Integers, Sequences, FiniteSets, TLC

VARIABLES
    prog,      \* which entry point of the repository is running
    now,       \* Date.now()
    file,      \* state/paper-trades.json: <<>> when missing, else <<state>>
    cyc,       \* the invocations of runPaperCycle in flight, one per slot
    timer,     \* next expiry of the setInterval timer, 0 while not registered
    started,   \* number of cycles started so far
    world,     \* what the Gamma API reports for each market
    kst,       \* the module-level `state` of the Kalshi paper engine
    sz,        \* the arguments and the results of the sizer calls
    call       \* the arguments and the result of a call of a pure function

vars == <<prog, now, file, cyc, timer, started, world, kst, sz, call>>

None == <<>>
Some(x) == <<x>>

Min(a, b) == IF a <= b THEN a ELSE b
Max(a, b) == IF a >= b THEN a ELSE b

RECURSIVE SumSeq(_)
SumSeq(s) == IF s = <<>> THEN 0 ELSE Head(s) + SumSeq(Tail(s))

(***************************************************************************)
(* TRADING / ESTIMATION configuration (config.ts).                         *)
(***************************************************************************)
DollarCap == 7500                \* Math.min(75, ...) in cents
MaxTradeRiskNum == 3             \* TRADING.maxTradeRisk = 7.5% = 3/40
MaxTradeRiskDen == 40
KellyFractionNum == 1            \* TRADING.kellyFraction = 0.25 = 1/4
KellyFractionDen == 4
MinTradeSize == 100              \* TRADING.minTradeSize, cents
MinPriceThreshold == 10          \* TRADING.minPriceThreshold, percent
MaxOpenPositions == 2            \* TRADING.maxOpenPositions
MaxTradesPerCycle == 2           \* TRADING.maxTradesPerCycle
InitialBankroll == 10000         \* TRADING.initialBankroll, cents
CycleIntervalMs == 2             \* TRADING.cycleIntervalMs, in time units
DailyApiCap == 2                 \* TRADING.dailyApiCap, in cost units
DayMs == 6                       \* a day, in time units
ensembleModels == <<"deepseek", "gemma", "hermes">>
allModels == {ensembleModels[i] : i \in DOMAIN ensembleModels} \cup {"ensemble"}

(***************************************************************************)
(* sizer.ts                                                                *)
(***************************************************************************)
\* p = signal.side === "YES" ? signal.fairYes : 1 - signal.fairYes, percent
winProb(signal) ==
    IF signal.side = "YES" THEN signal.fairYes ELSE 100 - signal.fairYes

\* fullKelly = (b*p - q)/b with b = 1/price - 1.  With price and p in
\* percent, b = (100 - price)/price and (b*p - q)/b reduces to
\* (p - price)/(100 - price).
fullKellyNum(signal) == winProb(signal) - signal.marketPrice
fullKellyDen(signal) == 100 - signal.marketPrice

\* maxPositionPct by price bucket, percent
maxPositionPct(price) ==
    IF price < 35 THEN 15 ELSE IF price <= 50 THEN 12 ELSE 8

\* balance * fullKelly * TRADING.kellyFraction, rounded down to whole cents
kellySizeCents(signal, balance) ==
    (balance * fullKellyNum(signal) * KellyFractionNum)
        \div (fullKellyDen(signal) * KellyFractionDen)

\* balance * maxPositionPct, rounded down to whole cents
maxSizeCents(signal, balance) ==
    (balance * maxPositionPct(signal.marketPrice)) \div 100

maxRiskCentsLarger(balance) ==
    Max(DollarCap, (balance * MaxTradeRiskNum) \div MaxTradeRiskDen)

\* Math.min(75, balance * TRADING.maxTradeRisk), rounded down to whole cents
maxRiskCents(balance) ==
    Min(DollarCap, (balance * MaxTradeRiskNum) \div MaxTradeRiskDen)

\* The successive Math.min of sizeOne followed by Math.floor(x*100)/100.
\* Rounding down commutes with min, and positionSize < minTradeSize is
\* decided by the rounded value because minTradeSize is whole cents.
cappedSize(signal, balance) ==
    Min(Min(kellySizeCents(signal, balance), maxSizeCents(signal, balance)),
        maxRiskCents(balance))

\* sizeOne with a size below the minimum raised to the minimum
sizeOneClampUp(signal, balance) ==
    IF signal.marketPrice < MinPriceThreshold THEN None
    ELSE IF fullKellyNum(signal) <= 0 THEN None
    ELSE Some(Max(MinTradeSize, cappedSize(signal, balance)))

\* sizeOne: None for null, else Some(positionSize in cents)
sizeOne(signal, balance) ==
    IF signal.marketPrice < MinPriceThreshold THEN None
    ELSE IF fullKellyNum(signal) <= 0 THEN None
    ELSE IF cappedSize(signal, balance) < MinTradeSize THEN None
    ELSE Some(cappedSize(signal, balance))

\* the loop with every signal sized against the starting balance
RECURSIVE sizeLoopFixedBalance(_, _)
sizeLoopFixedBalance(toSize, balance) ==
    IF toSize = <<>> THEN <<>>
    ELSE LET sized == sizeOne(Head(toSize), balance)
         IN  IF sized = None
             THEN sizeLoopFixedBalance(Tail(toSize), balance)
             ELSE <<[signal |-> Head(toSize), positionSize |-> sized[1]]>>
                  \o sizeLoopFixedBalance(Tail(toSize), balance)

\* the loop of sizePositions over toSize with the running balance
RECURSIVE sizeLoop(_, _)
sizeLoop(toSize, balance) ==
    IF toSize = <<>> THEN <<>>
    ELSE LET sized == sizeOne(Head(toSize), balance)
         IN  IF sized = None
             THEN sizeLoop(Tail(toSize), balance)
             ELSE <<[signal |-> Head(toSize), positionSize |-> sized[1]]>>
                  \o sizeLoop(Tail(toSize), balance - sized[1])

sizePositions(signals, balance, openCount) ==
    LET maxPositions == MaxOpenPositions - openCount
    IN  IF maxPositions <= 0 THEN <<>>
        ELSE sizeLoop(SubSeq(signals, 1,
                 Min(Len(signals), Min(MaxTradesPerCycle, maxPositions))),
                 balance)


(***************************************************************************)
(* Bounds of the model.                                                    *)
(***************************************************************************)
MaxInFlight == 2      \* invocations of runPaperCycle in flight at once
MaxCycles == 3        \* cycles started in one run
MaxTime == 5          \* last instant of the clock
MaxCycleCost == 1     \* largest API cost of one cycle, in cost units

Slots == 1..MaxInFlight
Markets == {1, 2}

(***************************************************************************)
(* paper-trader.ts: persisted state                                        *)
(***************************************************************************)
\* d.setHours(24, 0, 0, 0): the first midnight after t
getNextMidnight(t) == ((t \div DayMs) + 1) * DayMs

\* DEFAULT_STATE, evaluated when the module is loaded (at time 1)
DEFAULT_STATE ==
    [cycleCount |-> 0,
     simulatedBankroll |-> InitialBankroll,
     initialBankroll |-> InitialBankroll,
     trades |-> <<>>,
     dailyApiCost |-> 0,
     dailyApiCostResetAt |-> getNextMidnight(1),
     modelBankrolls |-> <<>>]

\* loadPaperState: the parsed file as it is, or the defaults
loadPaperState(f) == IF f = None THEN DEFAULT_STATE ELSE f[1]

\* savePaperState: the file holds the serialized state
savePaperState(state) == Some(state)

ensureModelBankrolls(state) ==
    [state EXCEPT !.modelBankrolls =
        [m \in allModels |->
            IF m \in DOMAIN state.modelBankrolls
            THEN state.modelBankrolls[m] ELSE InitialBankroll]]

\* step 1 of runPaperCycle: reset of the daily cost after midnight
resetDailyCost(state, t) ==
    IF t > state.dailyApiCostResetAt
    THEN [state EXCEPT !.dailyApiCost = 0,
                       !.dailyApiCostResetAt = getNextMidnight(t)]
    ELSE state

(***************************************************************************)
(* resolver.ts                                                             *)
(***************************************************************************)
\* proceeds that take the shares away from the losing side
calculatePnlLosesShares(trade, resolution) ==
    (IF trade.side = resolution THEN trade.hypotheticalShares
     ELSE 0 - trade.hypotheticalShares) - trade.hypotheticalSize

\* calculatePnl: proceeds - hypotheticalSize
calculatePnl(trade, resolution) ==
    (IF trade.side = resolution THEN trade.hypotheticalShares ELSE 0)
        - trade.hypotheticalSize

\* parseOutcomePrices: raw is the JSON text, modelled by whether it parses
\* and by the items of the parsed array
parseOutcomePrices(raw) ==
    IF ~raw.parses \/ Len(raw.items) # 2 THEN None ELSE Some(raw.items)

isExtremeOrEqual(price) == price >= 95

\* the test `> 0.95` of a settlement price, percent
isExtreme(price) == price > 95

resolveOneNoSkip(trade, statuses, t) ==
    IF trade.marketId \notin DOMAIN statuses THEN trade
    ELSE IF ~statuses[trade.marketId].closed THEN trade
    ELSE LET prices == parseOutcomePrices(statuses[trade.marketId].outcomePrices)
         IN  IF prices = None THEN trade
             ELSE IF isExtreme(prices[1][1])
             THEN [trade EXCEPT !.resolved = TRUE, !.resolution = "YES",
                                !.resolvedAt = Some(t),
                                !.pnl = Some(calculatePnl(trade, "YES"))]
             ELSE IF isExtreme(prices[1][2])
             THEN [trade EXCEPT !.resolved = TRUE, !.resolution = "NO",
                                !.resolvedAt = Some(t),
                                !.pnl = Some(calculatePnl(trade, "NO"))]
             ELSE trade

\* the body of the loop of checkResolutions for one trade; statuses is the
\* map returned by fetchMarketStatuses
resolveOne(trade, statuses, t) ==
    IF trade.resolved THEN trade
    ELSE IF trade.marketId \notin DOMAIN statuses THEN trade
    ELSE IF ~statuses[trade.marketId].closed THEN trade
    ELSE LET prices == parseOutcomePrices(statuses[trade.marketId].outcomePrices)
         IN  IF prices = None THEN trade
             ELSE IF isExtreme(prices[1][1])
             THEN [trade EXCEPT !.resolved = TRUE, !.resolution = "YES",
                                !.resolvedAt = Some(t),
                                !.pnl = Some(calculatePnl(trade, "YES"))]
             ELSE IF isExtreme(prices[1][2])
             THEN [trade EXCEPT !.resolved = TRUE, !.resolution = "NO",
                                !.resolvedAt = Some(t),
                                !.pnl = Some(calculatePnl(trade, "NO"))]
             ELSE trade

checkResolutions(trades, statuses, t) ==
    [i \in DOMAIN trades |-> resolveOne(trades[i], statuses, t)]

\* the market ids checkResolutions asks fetchMarketStatuses for
unresolvedMarketIds(trades) ==
    {trades[i].marketId : i \in {j \in DOMAIN trades : ~trades[j].resolved}}

(***************************************************************************)
(* paper-trader.ts: runPaperCycle                                          *)
(***************************************************************************)
\* the filter of justResolved
justResolved(trade, t) ==
    /\ trade.resolved
    /\ trade.resolvedAt # None
    /\ trade.resolvedAt[1] # 0
    /\ t - trade.resolvedAt[1] < CycleIntervalMs * 2

\* the condition under which a just-resolved trade is credited
credited(trade, t) == justResolved(trade, t) /\ trade.pnl # None

\* the loop over justResolved: pnl added to the model's bankroll and to
\* simulatedBankroll
RECURSIVE creditLoop(_, _, _)
creditLoop(state, i, t) ==
    IF i > Len(state.trades) THEN state
    ELSE LET tr == state.trades[i]
         IN  IF credited(tr, t)
             THEN creditLoop(
                    [state EXCEPT
                       !.modelBankrolls[tr.model] = @ + tr.pnl[1],
                       !.simulatedBankroll = @ + tr.pnl[1]], i + 1, t)
             ELSE creditLoop(state, i + 1, t)

creditJustResolved(state, t) == creditLoop(state, 1, t)

\* the keys of signalsByModel in insertion order
RECURSIVE modelOrder(_, _)
modelOrder(signals, seen) ==
    IF signals = <<>> THEN <<>>
    ELSE IF Head(signals).model \in seen THEN modelOrder(Tail(signals), seen)
    ELSE <<Head(signals).model>>
         \o modelOrder(Tail(signals), seen \cup {Head(signals).model})

hasOpenTradeResolved(state, marketId, model) ==
    \E i \in DOMAIN state.trades :
        /\ state.trades[i].marketId = marketId
        /\ state.trades[i].model = model
        /\ state.trades[i].resolved

\* state.trades.find(...) of step 7: an unresolved trade of the model on
\* the market
hasOpenTrade(state, marketId, model) ==
    \E i \in DOMAIN state.trades :
        /\ state.trades[i].marketId = marketId
        /\ state.trades[i].model = model
        /\ ~state.trades[i].resolved

newTrade(pos, model) ==
    [marketId |-> pos.signal.marketId,
     model |-> model,
     side |-> pos.signal.side,
     fairYes |-> pos.signal.fairYes,
     hypotheticalSize |-> pos.positionSize,
     hypotheticalShares |-> (pos.positionSize * 100) \div pos.signal.marketPrice,
     entryPrice |-> pos.signal.marketPrice,
     resolved |-> FALSE,
     resolution |-> "null",
     resolvedAt |-> None,
     pnl |-> None]

\* one iteration of the loop over the sized positions of one model
openOne(state, pos, model) ==
    IF hasOpenTrade(state, pos.signal.marketId, model) THEN state
    ELSE [state EXCEPT
            !.trades = Append(@, newTrade(pos, model)),
            !.modelBankrolls[model] = @ - pos.positionSize,
            !.simulatedBankroll = @ - pos.positionSize]

RECURSIVE openLoop(_, _, _)
openLoop(state, sized, model) ==
    IF sized = <<>> THEN state
    ELSE openLoop(openOne(state, Head(sized), model), Tail(sized), model)

\* one iteration of the loop over signalsByModel
openForModel(state, signals, model) ==
    LET modelSignals == SelectSeq(signals, LAMBDA s : s.model = model)
        modelBankroll == state.modelBankrolls[model]
        openCount == Len(SelectSeq(state.trades,
                        LAMBDA tr : tr.model = model /\ ~tr.resolved))
    IN  openLoop(state, sizePositions(modelSignals, modelBankroll, openCount),
                 model)

RECURSIVE openForModels(_, _, _)
openForModels(state, signals, models) ==
    IF models = <<>> THEN state
    ELSE openForModels(openForModel(state, signals, Head(models)),
                       signals, Tail(models))

\* step 7 of runPaperCycle
openTrades(state, signals) ==
    openForModels(state, signals, modelOrder(signals, {}))

\* state.cycleCount++ and the like before every savePaperState
countCycle(state) == [state EXCEPT !.cycleCount = @ + 1]

addCost(state, cost) == [state EXCEPT !.dailyApiCost = @ + cost]

(***************************************************************************)
(* scripts/report.ts: the bankroll recomputed from the trade history       *)
(***************************************************************************)
\* the loop without the cost added back for a resolved trade
RECURSIVE recomputeLoopCostKept(_, _)
recomputeLoopCostKept(trades, bankroll) ==
    IF trades = <<>> THEN bankroll
    ELSE LET t == Head(trades)
             deducted == bankroll - t.hypotheticalSize
         IN  recomputeLoopCostKept(Tail(trades),
                IF t.resolved /\ t.pnl # None
                THEN deducted + t.pnl[1]
                ELSE deducted)

RECURSIVE recomputeLoop(_, _)
recomputeLoop(trades, bankroll) ==
    IF trades = <<>> THEN bankroll
    ELSE LET t == Head(trades)
             deducted == bankroll - t.hypotheticalSize
         IN  recomputeLoop(Tail(trades),
                IF t.resolved /\ t.pnl # None
                THEN deducted + t.hypotheticalSize + t.pnl[1]
                ELSE deducted)

recomputeBankroll(state) == recomputeLoop(state.trades, state.initialBankroll)

(***************************************************************************)
(* Inputs of the paper trader: what the upstream services answer.          *)
(***************************************************************************)
Sig(marketId, model, side, price, fairYes) ==
    [marketId |-> marketId, model |-> model, side |-> side,
     marketPrice |-> price, fairYes |-> fairYes]

\* The signals analyzeMarkets can return in one cycle, in its order (by
\* decreasing edge).  Market 1 trades at YES 0.80 / NO 0.20, market 2 at
\* YES 0.50 / NO 0.50.  The ensemble signal of market 1 has the median
\* fairYes and the mean edge of the two model signals it is built from.
SignalMenu ==
    << Sig(1, "deepseek", "NO", 20, 40),
       Sig(1, "ensemble", "NO", 20, 50),
       Sig(2, "deepseek", "YES", 50, 80),
       Sig(1, "gemma", "NO", 20, 60),
       Sig(2, "gemma", "YES", 50, 70) >>

RECURSIVE pick(_, _, _)
pick(menu, chosen, i) ==
    IF i > Len(menu) THEN <<>>
    ELSE (IF i \in chosen THEN <<menu[i]>> ELSE <<>>) \o pick(menu, chosen, i + 1)

\* the signals of one cycle: one model on one market, one model on both,
\* or all models with the ensemble signal of the market they agree on
SignalChoices == {{1}, {1, 3}, {4, 5}, {1, 2, 3, 4, 5}}

Status(closed, parses, items) ==
    [closed |-> closed, outcomePrices |-> [parses |-> parses, items |-> items]]

\* a market that is still trading; its prices may already be extreme
OpenStatus == Status(FALSE, TRUE, <<100, 0>>)

\* closed with a clean settlement
SettledStatuses ==
    { Status(TRUE, TRUE, <<100, 0>>), Status(TRUE, TRUE, <<0, 100>>) }

\* closed without one: not above 0.95, not two prices, prices do not parse
UnsettledStatuses ==
    { Status(TRUE, TRUE, <<95, 5>>), Status(TRUE, TRUE, <<100>>),
      Status(TRUE, FALSE, <<>>) }

\* what each market can come to report once it has closed
Closings(m) ==
    IF m = 1
    THEN SettledStatuses \cup {Status(TRUE, TRUE, <<95, 5>>)}
    ELSE {Status(TRUE, TRUE, <<0, 100>>), Status(TRUE, TRUE, <<100>>),
          Status(TRUE, FALSE, <<>>)}

\* the statuses a market can go through: it closes, and a closed market
\* without a settlement is settled later
LaterStatuses(m, st) ==
    {st} \cup (IF st = OpenStatus THEN Closings(m)
               ELSE IF st \in UnsettledStatuses
               THEN Closings(m) \cap SettledStatuses ELSE {})

\* the worlds that can follow w while nothing reads it
LaterWorlds(w) == {v \in [Markets -> SettledStatuses \cup UnsettledStatuses \cup {OpenStatus}] :
                     \A m \in Markets : v[m] \in LaterStatuses(m, w[m])}

\* the maps fetchMarketStatuses can return for the ids asked: a batch
\* that fails, or a market the API leaves out, is missing from the map
StatusMaps(w, ids) == {[m \in got |-> w[m]] : got \in SUBSET ids}

Costs == 0..MaxCycleCost

(***************************************************************************)
(* The paper trader as a state machine.                                    *)
(***************************************************************************)
IdleSlot == [pc |-> "idle", n |-> 0, state |-> DEFAULT_STATE]

unresolvedCount(state) ==
    Len(SelectSeq(state.trades, LAMBDA tr : ~tr.resolved))

\* runPaperCycle up to the daily cap check, on the state just loaded
atBudgetCheck(f, t) == resetDailyCost(ensureModelBankrolls(loadPaperState(f)), t)

\* whether a cycle started now returns at the daily cap
cappedAtLoad == atBudgetCheck(file, now).dailyApiCost >= DailyApiCap

\* the state of a cycle at its first await: checkResolutions returns at once
\* when no trade is unresolved, and the just-resolved trades are credited
atFirstAwait(state, t) ==
    IF unresolvedCount(state) > 0 THEN [pc |-> "resolve", state |-> state]
    ELSE [pc |-> "scan",
          state |-> IF state.trades # <<>>
                    THEN creditJustResolved(state, t) ELSE state]

\* runPaperCycle from its entry to its first await, or to its return when
\* the daily cap is reached, on the state loadPaperState returned
StartCycle(s) ==
    LET state1 == atBudgetCheck(file, now)
        n == started + 1
    IN  /\ started' = n
        /\ IF cappedAtLoad
           THEN /\ file' = savePaperState(countCycle(state1))
                /\ UNCHANGED cyc
           ELSE /\ cyc' = [cyc EXCEPT ![s] =
                      [pc |-> atFirstAwait(state1, now).pc, n |-> n,
                       state |-> atFirstAwait(state1, now).state]]
                /\ UNCHANGED file

\* runPaperTrader: the first cycle, run before setInterval
FirstCycle ==
    /\ prog = "paper"
    /\ started = 0
    /\ StartCycle(1)
    /\ timer' = IF cappedAtLoad THEN now + CycleIntervalMs ELSE timer
    /\ UNCHANGED <<prog, now, world, kst, sz, call>>

\* the setInterval callback: loads the state and runs a cycle on it
TimerFire ==
    /\ prog = "paper"
    /\ timer # 0
    /\ now >= timer
    /\ started < MaxCycles
    /\ \E s \in Slots :
        /\ cyc[s].pc = "idle"
        /\ \A r \in Slots : r < s => cyc[r].pc # "idle"
        /\ StartCycle(s)
    /\ timer' = timer + CycleIntervalMs
    /\ UNCHANGED <<prog, now, world, kst, sz, call>>

\* the end of every path of runPaperCycle: savePaperState and return; the
\* first cycle is followed by setInterval
Finish(s, state) ==
    /\ file' = savePaperState(state)
    /\ cyc' = [cyc EXCEPT ![s] = IdleSlot]
    /\ timer' = IF timer = 0 THEN now + CycleIntervalMs ELSE timer

\* step 2 of runPaperCycle after fetchMarketStatuses has answered: the
\* loop of checkResolutions, then the credit of the just-resolved trades.
\* The markets may have closed or settled since they were last read.
resolveAndCredit(state, statuses, t) ==
    creditJustResolved(
        [state EXCEPT !.trades = checkResolutions(@, statuses, t)], t)

ResolveStep ==
    /\ prog = "paper"
    /\ \E s \in Slots :
        /\ cyc[s].pc = "resolve"
        /\ \E w \in LaterWorlds(world) :
            /\ world' = w
            /\ \E statuses \in StatusMaps(w, unresolvedMarketIds(cyc[s].state.trades)) :
                cyc' = [cyc EXCEPT ![s].pc = "scan",
                          ![s].state = resolveAndCredit(@, statuses, now)]
    /\ UNCHANGED <<prog, now, file, timer, started, kst, sz, call>>

\* step 3: scanMarkets found no market
ScanNoMarkets ==
    /\ prog = "paper"
    /\ \E s \in Slots :
        /\ cyc[s].pc = "scan"
        /\ Finish(s, countCycle(cyc[s].state))
    /\ UNCHANGED <<prog, now, started, world, kst, sz, call>>

\* step 3: axios.get rejects in scanMarkets and runPaperCycle rejects with
\* it, before any save.  In the first cycle the rejection leaves
\* runPaperTrader, whose caller ends the process; in a later cycle the
\* callback of setInterval catches and logs it.
ScanFails ==
    /\ prog = "paper"
    /\ \E s \in Slots :
        /\ cyc[s].pc = "scan"
        /\ cyc' = [cyc EXCEPT ![s] =
                     IF timer = 0 THEN [@ EXCEPT !.pc = "exited"] ELSE IdleSlot]
    /\ UNCHANGED <<prog, now, file, timer, started, world, kst, sz, call>>

\* steps 4 to 6 without a signal: no stage-1 candidate, or no signal
\* past the thresholds; the API cost of the cycle is recorded
ScanNoSignals ==
    /\ prog = "paper"
    /\ \E s \in Slots :
        /\ cyc[s].pc = "scan"
        /\ Finish(s, countCycle(addCost(cyc[s].state, MaxCycleCost)))
    /\ UNCHANGED <<prog, now, started, world, kst, sz, call>>

\* steps 4 to 9 with signals: cost recorded, positions sized and opened
ScanSignals ==
    /\ prog = "paper"
    /\ \E s \in Slots, c \in SignalChoices, cost \in Costs :
        /\ cyc[s].pc = "scan"
        /\ Finish(s, countCycle(openTrades(addCost(cyc[s].state, cost),
                                           pick(SignalMenu, c, 1))))
    /\ UNCHANGED <<prog, now, started, world, kst, sz, call>>

\* time passes; an expired timer fires before the clock moves on
Tick ==
    /\ prog = "paper"
    /\ now < MaxTime
    /\ started > 0
    /\ ~ENABLED TimerFire
    /\ now' = now + 1
    /\ UNCHANGED <<prog, file, cyc, timer, started, world, kst, sz, call>>

InitPaper ==
    /\ prog = "paper"
    /\ now = 1
    /\ file = None
    /\ cyc = [s \in Slots |-> IdleSlot]
    /\ timer = 0
    /\ started = 0
    /\ world = [m \in Markets |-> OpenStatus]
    /\ kst = 0
    /\ sz = 0
    /\ call = 0

(***************************************************************************)
(* The Kalshi paper engine and its main loop.  Money is in cents, prices   *)
(* and probabilities in percent, time in units of the resolution grace     *)
(* period.  The engine computes sizes in floating point; the signals       *)
(* below make every quotient exact.                                        *)
(***************************************************************************)
KalshiInitialBankroll == 1000000   \* KALSHI_TRADING.initialBankroll
KalshiMaxPositionPct == 3          \* KALSHI_TRADING.maxPositionPct, percent
KalshiMaxPositionUsd == 30000      \* KALSHI_TRADING.maxPositionUsd
KalshiKellyDen == 5                \* KALSHI_TRADING.kellyFraction = 1/5
KalshiGrace == 1                   \* KALSHI_TRADING.resolutionGraceMinutes
KalshiMinSize == 100               \* the `size < 1` of executePaperTrade
KalshiMaxPerCycle == 3             \* the `executed >= 3` of the main loop

MaxKalshiTrades == 3                \* trades opened in one run

Tickers == {"KXA", "KXB"}

defaultState ==
    [bankroll |-> KalshiInitialBankroll,
     initialBankroll |-> KalshiInitialBankroll,
     trades |-> <<>>,
     openPositions |-> <<>>]

\* calculateSize: p is signal.fairValue whatever the side
calculateSize(state, signal) ==
    LET num == signal.fairValue - signal.marketPrice
        den == 100 - signal.marketPrice
        kellyNum == Max(0, num)
    IN  Min(Min((state.bankroll * kellyNum) \div (den * KalshiKellyDen),
                (state.bankroll * KalshiMaxPositionPct) \div 100),
            Min(KalshiMaxPositionUsd, state.bankroll))

alreadyHolding(state, signal) ==
    \E i \in DOMAIN state.openPositions :
        state.openPositions[i].ticker = signal.ticker

\* executePaperTrade up to its saveState: the state after it, and whether
\* a trade was returned
executePaperTrade(state, signal, id) ==
    IF alreadyHolding(state, signal) THEN [state |-> state, traded |-> FALSE]
    ELSE LET size == calculateSize(state, signal)
         IN  IF size < KalshiMinSize THEN [state |-> state, traded |-> FALSE]
             ELSE LET trade == [id |-> id,
                                ticker |-> signal.ticker,
                                close_time |-> signal.close_time,
                                side |-> signal.side,
                                entryPrice |-> signal.marketPrice,
                                size |-> size,
                                contracts |-> (size * 100) \div signal.marketPrice,
                                fairValue |-> signal.fairValue,
                                resolved |-> FALSE,
                                result |-> "null",
                                pnl |-> None]
                  IN  [state |-> [state EXCEPT
                                    !.bankroll = @ - size,
                                    !.openPositions = Append(@, trade),
                                    !.trades = Append(@, trade)],
                       traded |-> TRUE]

\* the `for (const signal of signals)` loop of the main loop
RECURSIVE executeLoop(_, _, _, _, _)
executeLoop(state, signals, i, executed, id) ==
    IF i > Len(signals) \/ executed >= KalshiMaxPerCycle THEN state
    ELSE LET r == executePaperTrade(state, signals[i], id)
         IN  executeLoop(r.state, signals, i + 1,
                         IF r.traded THEN executed + 1 ELSE executed,
                         IF r.traded THEN id + 1 ELSE id)

\* state.trades.findIndex((t) => t.id === trade.id), 0 for -1
findIndex(trades, id) ==
    IF \E i \in DOMAIN trades : trades[i].id = id
    THEN CHOOSE i \in DOMAIN trades :
            trades[i].id = id /\ \A j \in 1..(i - 1) : trades[j].id # id
    ELSE 0

removeAt(s, i) == SubSeq(s, 1, i - 1) \o SubSeq(s, i + 1, Len(s))

\* one iteration of the loop of resolveExpired; fresh is what fetchMarket
\* answered for the ticker: "fail" for null, else the market's result
resolvePosition(state, i, fresh, t) ==
    LET trade == state.openPositions[i]
    IN  IF trade.close_time + KalshiGrace > t THEN state
        ELSE IF fresh[trade.ticker] \notin {"yes", "no"} THEN state
        ELSE LET result == fresh[trade.ticker]
                 pnl == IF trade.side = result
                        THEN (trade.contracts * (100 - trade.entryPrice)) \div 100
                        ELSE 0 - trade.size
                 done == [trade EXCEPT !.result = result, !.resolved = TRUE,
                                       !.pnl = Some(pnl)]
                 fullIdx == findIndex(state.trades, trade.id)
             IN  [state EXCEPT
                    !.bankroll = @ + trade.size + pnl,
                    !.trades = IF fullIdx # 0
                               THEN [@ EXCEPT ![fullIdx] = done] ELSE @,
                    !.openPositions = removeAt(@, i)]

RECURSIVE resolveExpired(_, _, _, _)
resolveExpired(state, i, fresh, t) ==
    IF i < 1 THEN state
    ELSE resolveExpired(resolvePosition(state, i, fresh, t), i - 1, fresh, t)

KSig(ticker, side, price, fairValue) ==
    [ticker |-> ticker, side |-> side, marketPrice |-> price,
     fairValue |-> fairValue]

KalshiMenu ==
    << KSig("KXA", "yes", 50, 55), KSig("KXB", "no", 40, 70) >>

withCloseTime(signals, t) ==
    [k \in DOMAIN signals |->
        [ticker |-> signals[k].ticker, side |-> signals[k].side,
         marketPrice |-> signals[k].marketPrice,
         fairValue |-> signals[k].fairValue, close_time |-> t]]

FetchResults == {"fail", "", "yes", "no"}

KalshiStart ==
    [pc |-> "resolve", nextId |-> 1, file |-> None, state |-> defaultState]

\* run(): loadState without a file, then the main loop
InitKalshi ==
    /\ prog = "kalshi"
    /\ now = 1
    /\ file = None
    /\ cyc = [s \in Slots |-> IdleSlot]
    /\ timer = 0
    /\ started = 0
    /\ world = [m \in Markets |-> OpenStatus]
    /\ kst = KalshiStart
    /\ sz = 0
    /\ call = 0

\* main loop: await resolveExpired(), which saves when a trade resolved
KalshiResolve ==
    /\ prog = "kalshi"
    /\ kst.pc = "resolve"
    /\ \E fresh \in [Tickers -> FetchResults] :
        LET after == resolveExpired(kst.state, Len(kst.state.openPositions),
                                    fresh, now)
        IN  kst' = [kst EXCEPT
                      !.pc = "trade",
                      !.state = after,
                      !.file = IF Len(after.openPositions)
                                    < Len(kst.state.openPositions)
                               THEN Some(after) ELSE @]
    /\ UNCHANGED <<prog, now, file, cyc, timer, started, world, sz, call>>

\* main loop: evaluateAllMarkets, the executePaperTrade calls, saveState
KalshiTrade ==
    /\ prog = "kalshi"
    /\ kst.pc = "trade"
    /\ \E c \in SUBSET (DOMAIN KalshiMenu), ahead \in 1..2 :
        LET signals == withCloseTime(pick(KalshiMenu, c, 1), now + ahead)
            after == executeLoop(kst.state, signals, 1, 0, kst.nextId)
        IN  /\ Len(after.trades) <= MaxKalshiTrades
            /\ kst' = [kst EXCEPT
                        !.pc = "sleep",
                        !.state = after,
                        !.nextId = @ + Len(after.trades) - Len(kst.state.trades),
                        !.file = Some(after)]
    /\ UNCHANGED <<prog, now, file, cyc, timer, started, world, sz, call>>

\* main loop: sleep(scanIntervalMs), a fraction of the grace period
KalshiSleep ==
    /\ prog = "kalshi"
    /\ kst.pc = "sleep"
    /\ \E dt \in 0..1 :
        /\ now + dt <= MaxTime
        /\ now' = now + dt
    /\ kst' = [kst EXCEPT !.pc = "resolve"]
    /\ UNCHANGED <<prog, file, cyc, timer, started, world, sz, call>>

Init == InitPaper \/ InitKalshi

Next ==
    \/ FirstCycle
    \/ TimerFire
    \/ ResolveStep
    \/ ScanNoMarkets
    \/ ScanFails
    \/ ScanNoSignals
    \/ ScanSignals
    \/ Tick
    \/ KalshiResolve
    \/ KalshiTrade
    \/ KalshiSleep

Spec == Init /\ [][Next]_vars


(***************************************************************************)
(* The sizer on its own: the arguments are drawn at the start, the calls   *)
(* record what sizeOne and sizePositions return.                           *)
(***************************************************************************)
SizerPrices == {5, 10, 20, 34, 35, 40, 50, 51, 70, 90}
SizerFairYes == {0, 5, 30, 50, 60, 95, 100}
SizerBalances == {0 - 500, 0, 90, 1000, 10000, 66000, 1000000}

SizerSignals ==
    {Sig(1, "deepseek", side, price, fairYes) :
        side \in {"YES", "NO"}, price \in SizerPrices, fairYes \in SizerFairYes}

SizerSeconds == {<<>>, <<Sig(2, "deepseek", "YES", 50, 80)>>,
                 <<Sig(2, "deepseek", "NO", 20, 40)>>,
                 <<Sig(2, "deepseek", "YES", 50, 80), Sig(3, "deepseek", "NO", 20, 40)>>}

InitSizer ==
    /\ prog = "sizer"
    /\ now = 1
    /\ file = None
    /\ cyc = [s \in Slots |-> IdleSlot]
    /\ timer = 0
    /\ started = 0
    /\ world = [m \in Markets |-> OpenStatus]
    /\ kst = 0
    /\ call = 0
    /\ \E first \in SizerSignals, second \in SizerSeconds,
          balance \in SizerBalances, openCount \in 0..MaxOpenPositions :
        sz = [signals |-> <<first>> \o second, balance |-> balance,
              openCount |-> openCount, oneDone |-> FALSE, one |-> None,
              listDone |-> FALSE, list |-> <<>>]

SizeOneCall ==
    /\ prog = "sizer"
    /\ ~sz.oneDone
    /\ sz' = [sz EXCEPT !.oneDone = TRUE,
                         !.one = sizeOne(sz.signals[1], sz.balance)]
    /\ UNCHANGED <<prog, now, file, cyc, timer, started, world, kst, call>>

SizePositionsCall ==
    /\ prog = "sizer"
    /\ ~sz.listDone
    /\ sz' = [sz EXCEPT
                !.listDone = TRUE,
                !.list = sizePositions(sz.signals, sz.balance, sz.openCount)]
    /\ UNCHANGED <<prog, now, file, cyc, timer, started, world, kst, call>>

NextSizer ==
    \/ SizeOneCall
    \/ SizePositionsCall

SpecSizer == InitSizer /\ [][NextSizer]_vars

bucketPct(price) == IF price < 35 THEN 15 ELSE IF price <= 50 THEN 12 ELSE 8

withinCaps(positionSize, signal, balance) ==
    /\ positionSize <= balance
    /\ positionSize <= 7500
    /\ positionSize * MaxTradeRiskDen <= balance * MaxTradeRiskNum
    /\ positionSize * 100 <= balance * bucketPct(signal.marketPrice)
    /\ positionSize * fullKellyDen(signal) * KellyFractionDen
          <= balance * fullKellyNum(signal) * KellyFractionNum

\* C6: a position returned by the sizer is at most the balance, at most
\* min($75, balance x maxTradeRisk), at most the price-bucket percentage
\* of the balance and at most balance x full Kelly x kellyFraction
C6_SizeWithinCaps ==
    prog = "sizer" =>
        /\ (sz.oneDone /\ sz.one # None)
              => withinCaps(sz.one[1], sz.signals[1], sz.balance)
        /\ sz.listDone
              => \A i \in DOMAIN sz.list :
                    withinCaps(sz.list[i].positionSize, sz.list[i].signal,
                               sz.balance)

C6_Witness ==
    /\ prog = "sizer"
    /\ sz.balance = 1000000
    /\ sz.oneDone
    /\ sz.one = Some(7500)
    /\ sz.listDone
    /\ Len(sz.list) = 2


(***************************************************************************)
(* Properties of the paper trader.                                         *)
(***************************************************************************)
busy == {s \in Slots : cyc[s].pc # "idle"}

\* every paper-trading state that exists: the ones cycles work on and
\* the persisted one
liveStates ==
    {cyc[s].state : s \in busy} \cup (IF file = None THEN {} ELSE {file[1]})

tradesOf(state, model) == SelectSeq(state.trades, LAMBDA tr : tr.model = model)

sizes(trades) == SumSeq([i \in DOMAIN trades |-> trades[i].hypotheticalSize])

pnls(trades) ==
    SumSeq([i \in DOMAIN trades |->
              IF trades[i].resolved /\ trades[i].pnl # None
              THEN trades[i].pnl[1] ELSE 0])

\* C1: after any sequence of cycles the persisted bankroll, and each
\* model's bankroll over that model's trades, equals the bankroll
\* recomputed from the trade history
C1_NoDrift ==
    file # None =>
        /\ file[1].simulatedBankroll = recomputeBankroll(file[1])
        /\ \A m \in DOMAIN file[1].modelBankrolls :
              file[1].modelBankrolls[m]
                = recomputeLoop(tradesOf(file[1], m), InitialBankroll)

\* C2: the pnl of every resolved trade has been credited exactly once:
\* each bankroll is the initial one, less every size, plus every pnl once
C2_CreditedOnce ==
    \A st \in liveStates :
        /\ st.simulatedBankroll
             = InitialBankroll - sizes(st.trades) + pnls(st.trades)
        /\ \A m \in DOMAIN st.modelBankrolls :
              st.modelBankrolls[m]
                = InitialBankroll - sizes(tradesOf(st, m)) + pnls(tradesOf(st, m))

unresolvedOn(state, marketId, model) ==
    {i \in DOMAIN state.trades :
        /\ state.trades[i].marketId = marketId
        /\ state.trades[i].model = model
        /\ ~state.trades[i].resolved}

\* C4: at most one unresolved trade per market and model, and a sized
\* signal for a pair that holds one changes neither trades nor bankrolls
C4_OnePerMarketModel ==
    \A st \in liveStates :
        /\ \A m \in Markets, model \in allModels :
              Cardinality(unresolvedOn(st, m, model)) <= 1
        /\ \A k \in DOMAIN SignalMenu :
              unresolvedOn(st, SignalMenu[k].marketId, SignalMenu[k].model) # {}
                  => openTrades(st, <<SignalMenu[k]>>) = st

C4_Witness ==
    \E s \in busy :
        /\ cyc[s].pc = "scan"
        /\ cyc[s].state.cycleCount >= 1
        /\ \E k \in DOMAIN SignalMenu :
              /\ unresolvedOn(cyc[s].state, SignalMenu[k].marketId,
                               SignalMenu[k].model) # {}
              /\ sizePositions(<<SignalMenu[k]>>,
                     cyc[s].state.modelBankrolls[SignalMenu[k].model], 1) # <<>>

\* C5: no bankroll of the paper trader is ever negative
C5_BankrollsNonNegative ==
    \A st \in liveStates :
        /\ st.simulatedBankroll >= 0
        /\ \A m \in DOMAIN st.modelBankrolls : st.modelBankrolls[m] >= 0

cleanYes(status) ==
    /\ status.closed
    /\ status.outcomePrices.parses
    /\ Len(status.outcomePrices.items) = 2
    /\ status.outcomePrices.items[1] > 95

cleanNo(status) ==
    /\ status.closed
    /\ status.outcomePrices.parses
    /\ Len(status.outcomePrices.items) = 2
    /\ status.outcomePrices.items[2] > 95

\* C7: a trade is resolved only when its market is reported closed with
\* the YES price above 0.95 (outcome YES) or the NO price above 0.95
\* (outcome NO); any other trade is unresolved with null resolution fields
C7_ResolvedOnlyWhenSettled ==
    \A st \in liveStates : \A i \in DOMAIN st.trades :
        LET tr == st.trades[i]
        IN  /\ tr.resolved =>
                 /\ tr.resolution \in {"YES", "NO"}
                 /\ tr.resolution = "YES" => cleanYes(world[tr.marketId])
                 /\ tr.resolution = "NO" => cleanNo(world[tr.marketId])
                 /\ tr.resolvedAt # None /\ tr.pnl # None
            /\ ~tr.resolved =>
                 tr.resolution = "null" /\ tr.resolvedAt = None /\ tr.pnl = None

C7_Witness ==
    \E s \in busy :
        /\ cyc[s].pc = "scan"
        /\ \E i, j \in DOMAIN cyc[s].state.trades :
              /\ cyc[s].state.trades[i].resolvedAt = Some(now)
              /\ ~cyc[s].state.trades[j].resolved
              /\ world[cyc[s].state.trades[j].marketId] \in UnsettledStatuses

\* C8: a cycle that starts at the daily cap with unresolved trades still
\* runs the resolution check on them
C8_CappedCycleChecksResolutions ==
    [][(started' = started + 1 /\ cappedAtLoad
            /\ unresolvedCount(loadPaperState(file)) > 0)
        => \E s \in Slots : cyc'[s].pc = "resolve" /\ cyc'[s].n = started']_vars

\* C9: at most one cycle is in progress at any time
C9_OneCycleAtATime == Cardinality(busy) <= 1

\* C10: a state that was just loaded has the bankroll recomputed from
\* its trades
C10_LoadedBankrollRecomputed ==
    \A s \in Slots :
        cyc[s].pc = "resolve" =>
            cyc[s].state.simulatedBankroll = recomputeBankroll(cyc[s].state)


\* the trades that are resolved in a list stay exactly as they are in
\* the next list
keepsResolved(before, after) ==
    \A i \in DOMAIN before :
        before[i].resolved => (i \in DOMAIN after /\ after[i] = before[i])

atRest ==
    /\ now = 1
    /\ file = None
    /\ cyc = [s \in Slots |-> IdleSlot]
    /\ timer = 0
    /\ started = 0
    /\ world = [m \in Markets |-> OpenStatus]
    /\ kst = 0
    /\ sz = 0

onlyCall == UNCHANGED <<prog, now, file, cyc, timer, started, world, kst, sz>>

(***************************************************************************)
(* analyzer.ts.  Prices, probabilities, confidences and edges are counted  *)
(* in 1/1200: the inputs are multiples of 0.05, so that the shrinkage and  *)
(* the means and medians over two or three signals are whole numbers.      *)
(***************************************************************************)
AOne == 1200                  \* the number 1.0
ShrinkageNum == 1             \* CALIBRATION.shrinkageFactor = 1/2
ShrinkageDen == 2
EdgeThreshold == 120          \* TRADING.edgeThreshold = 0.10
Stage2MinConfidence == 720    \* ESTIMATION.stage2MinConfidence = 0.60
MidPenaltyNum == 3            \* TRADING.midPriceEdgePenalty = 3/2
MidPenaltyDen == 2
AMinPrice == 120              \* TRADING.minPriceThreshold = 0.10

Abs(x) == IF x < 0 THEN 0 - x ELSE x

\* the side and the edge of evaluateSignal without the tie-break toward the
\* cheap side
evaluateSignalLargerEdge(shrinkage, market, estimate, multiplier) ==
    LET adjustedFairYes ==
            market.yes + (shrinkage.num * (estimate.fairYes - market.yes))
                             \div shrinkage.den
        yesEdge == adjustedFairYes - market.yes
        noEdge == (AOne - adjustedFairYes) - market.no
        side == IF yesEdge > noEdge THEN "YES" ELSE "NO"
        edge == IF side = "YES" THEN yesEdge ELSE noEdge
        marketPrice == IF side = "YES" THEN market.yes ELSE market.no
        tooSmall ==
            IF marketPrice >= 480 /\ marketPrice <= 720
            THEN edge * multiplier * MidPenaltyDen < EdgeThreshold * 100 * MidPenaltyNum
            ELSE edge * multiplier < EdgeThreshold * 100
    IN  IF tooSmall THEN None
        ELSE IF estimate.confidence < Stage2MinConfidence THEN None
        ELSE IF marketPrice < AMinPrice \/ marketPrice > AOne - AMinPrice THEN None
        ELSE Some([market |-> market, fairYes |-> adjustedFairYes,
                   confidence |-> estimate.confidence, edge |-> edge,
                   side |-> side, marketPrice |-> marketPrice,
                   model |-> "none"])

\* the body of evaluateSignal under a given CALIBRATION.shrinkageFactor
\* (num / den): None for null; multiplier is CATEGORY_MULTIPLIERS[category]
\* in percent
evaluateSignalAt(shrinkage, market, estimate, multiplier) ==
    LET currentYes == market.yes
        currentNo == market.no
        adjustedFairYes ==
            currentYes + (shrinkage.num * (estimate.fairYes - currentYes))
                             \div shrinkage.den
        yesEdge == adjustedFairYes - currentYes
        noEdge == (AOne - adjustedFairYes) - currentNo
        bothHaveEdge == yesEdge > 0 /\ noEdge > 0
        side == IF bothHaveEdge
                THEN IF currentYes < 540 /\ currentNo > 660 THEN "YES"
                     ELSE IF currentNo < 540 /\ currentYes > 660 THEN "NO"
                     ELSE IF yesEdge > noEdge THEN "YES" ELSE "NO"
                ELSE IF yesEdge > noEdge THEN "YES" ELSE "NO"
        edge == IF side = "YES" THEN yesEdge ELSE noEdge
        marketPrice == IF side = "YES" THEN currentYes ELSE currentNo
        mid == marketPrice >= 480 /\ marketPrice <= 720
        \* effectiveEdge < TRADING.edgeThreshold, cleared of its quotients
        tooSmall ==
            IF mid
            THEN edge * multiplier * MidPenaltyDen < EdgeThreshold * 100 * MidPenaltyNum
            ELSE edge * multiplier < EdgeThreshold * 100
    IN  IF tooSmall THEN None
        ELSE IF estimate.confidence < Stage2MinConfidence THEN None
        ELSE IF marketPrice < AMinPrice \/ marketPrice > AOne - AMinPrice THEN None
        ELSE Some([market |-> market, fairYes |-> adjustedFairYes,
                   confidence |-> estimate.confidence, edge |-> edge,
                   side |-> side, marketPrice |-> marketPrice,
                   model |-> "none"])

\* evaluateSignal with the shrinkage factor of the configuration
evaluateSignal(market, estimate, multiplier) ==
    evaluateSignalAt([num |-> ShrinkageNum, den |-> ShrinkageDen], market,
                     estimate, multiplier)

\* the loop over `results` for one candidate: a model whose deepAnalyze
\* failed has the estimate None
RECURSIVE modelSignals(_, _, _, _)
modelSignals(market, estimates, multiplier, i) ==
    IF i > Len(ensembleModels) THEN <<>>
    ELSE LET estimate == estimates[ensembleModels[i]]
             sig == IF estimate = None THEN None
                    ELSE evaluateSignal(market, estimate[1], multiplier)
         IN  (IF sig = None THEN <<>>
              ELSE <<[sig[1] EXCEPT !.model = ensembleModels[i]]>>)
             \o modelSignals(market, estimates, multiplier, i + 1)

\* numbers.sort((a, b) => a - b)
\* the fair values left in the order of the signals
unsorted(s) == s

RECURSIVE sortAscending(_)
sortAscending(s) ==
    IF s = <<>> THEN <<>>
    ELSE LET least == CHOOSE i \in DOMAIN s : \A j \in DOMAIN s : s[i] <= s[j]
         IN  <<s[least]>>
             \o sortAscending(SubSeq(s, 1, least - 1) \o SubSeq(s, least + 1, Len(s)))

\* the body of the loop of generateEnsembleSignals for one market
ensembleOf(marketSignals) ==
    IF Len(marketSignals) < 2 THEN <<>>
    ELSE LET yesSigs == SelectSeq(marketSignals, LAMBDA g : g.side = "YES")
             noSigs == SelectSeq(marketSignals, LAMBDA g : g.side = "NO")
         IN  IF Len(yesSigs) = Len(noSigs) THEN <<>>
             ELSE
             LET majoritySignals == IF Len(yesSigs) > Len(noSigs) THEN yesSigs ELSE noSigs
                 side == majoritySignals[1].side
                 n == Len(marketSignals)
                 sortedFairYes ==
                     sortAscending([i \in 1..n |-> marketSignals[i].fairYes])
                 fairYes == IF n % 2 = 1 THEN sortedFairYes[(n \div 2) + 1]
                            ELSE (sortedFairYes[n \div 2] + sortedFairYes[(n \div 2) + 1]) \div 2
                 avgConfidence ==
                     SumSeq([i \in DOMAIN majoritySignals |-> majoritySignals[i].confidence])
                         \div Len(majoritySignals)
                 \* agreementRatio * avgConfidence
                 confidence == (Len(majoritySignals) * avgConfidence) \div n
                 avgEdge ==
                     SumSeq([i \in DOMAIN majoritySignals |-> majoritySignals[i].edge])
                         \div Len(majoritySignals)
                 refSignal == marketSignals[1]
             IN  <<[market |-> refSignal.market, fairYes |-> fairYes,
                    confidence |-> confidence, edge |-> avgEdge, side |-> side,
                    marketPrice |-> IF side = "YES" THEN refSignal.market.yes
                                    ELSE refSignal.market.no,
                    model |-> "ensemble"]>>

\* the keys of byMarket in insertion order
RECURSIVE marketOrder(_, _)
marketOrder(signals, seen) ==
    IF signals = <<>> THEN <<>>
    ELSE IF Head(signals).market.id \in seen THEN marketOrder(Tail(signals), seen)
    ELSE <<Head(signals).market.id>>
         \o marketOrder(Tail(signals), seen \cup {Head(signals).market.id})

RECURSIVE ensembleLoop(_, _)
ensembleLoop(signals, ids) ==
    IF ids = <<>> THEN <<>>
    ELSE ensembleOf(SelectSeq(signals, LAMBDA g : g.market.id = Head(ids)))
         \o ensembleLoop(signals, Tail(ids))

generateEnsembleSignals(signals) ==
    ensembleLoop(signals, marketOrder(signals, {}))

\* signals.sort((a, b) => Math.abs(b.edge) - Math.abs(a.edge)), a stable sort
RECURSIVE sortByEdge(_)
sortByEdge(s) ==
    IF s = <<>> THEN <<>>
    ELSE LET first == CHOOSE i \in DOMAIN s :
                 /\ \A j \in DOMAIN s : Abs(s[i].edge) >= Abs(s[j].edge)
                 /\ \A j \in 1..(i - 1) : Abs(s[j].edge) < Abs(s[i].edge)
         IN  <<s[first]>>
             \o sortByEdge(SubSeq(s, 1, first - 1) \o SubSeq(s, first + 1, Len(s)))

\* the loop of analyzeMarkets over the candidates
RECURSIVE candidateSignals(_)
candidateSignals(candidates) ==
    IF candidates = <<>> THEN <<>>
    ELSE modelSignals(Head(candidates).market, Head(candidates).estimates,
                      Head(candidates).multiplier, 1)
         \o candidateSignals(Tail(candidates))

analyzeMarkets(candidates) ==
    LET signals == candidateSignals(candidates)
    IN  sortByEdge(signals \o generateEnsembleSignals(signals))

AMarket(id, yes, no) == [id |-> id, yes |-> yes, no |-> no]

\* a cheap market, and a mid-priced one whose prices do not sum to 1
AnalyzerMarkets == {AMarket(1, 360, 840), AMarket(2, 600, 540)}

AnalyzerEstimates ==
    {None} \cup {Some([fairYes |-> f, confidence |-> c]) :
                    f \in {120, 600, 1080}, c \in {600, 720, 1080}}

\* CATEGORY_MULTIPLIERS[category] ?? 1.0, percent
AnalyzerMultipliers == {90, 100}

modelsOf == {ensembleModels[i] : i \in DOMAIN ensembleModels}

Est(f, c) == Some([fairYes |-> f, confidence |-> c])

\* answers of the models for a second candidate: a 2-to-1 vote, a 1-to-1
\* vote with one failed model, and a single answer
SecondEstimates ==
    {[deepseek |-> Est(1080, 1080), gemma |-> Est(120, 720), hermes |-> Est(1080, 720)],
     [deepseek |-> Est(1080, 720), gemma |-> Est(120, 720), hermes |-> None],
     [deepseek |-> None, gemma |-> None, hermes |-> Est(120, 1080)]}

\* the candidates after the first: none, or the other market
laterCandidates(market) ==
    {<<>>} \cup {<<[market |-> m, estimates |-> e, multiplier |-> 100]>> :
                    m \in AnalyzerMarkets \ {market}, e \in SecondEstimates}

InitAnalyzer ==
    /\ prog = "analyzer"
    /\ atRest
    /\ \E market \in AnalyzerMarkets, multiplier \in AnalyzerMultipliers,
          estimates \in [modelsOf -> AnalyzerEstimates] :
        \E later \in laterCandidates(market) :
            call = [candidates |-> <<[market |-> market, estimates |-> estimates,
                                      multiplier |-> multiplier]>> \o later,
                    done |-> FALSE, signals |-> <<>>]

AnalyzeCall ==
    /\ prog = "analyzer"
    /\ ~call.done
    /\ call' = [call EXCEPT !.done = TRUE,
                            !.signals = analyzeMarkets(call.candidates)]
    /\ onlyCall

NextAnalyzer == AnalyzeCall

SpecAnalyzer == InitAnalyzer /\ [][NextAnalyzer]_vars

\* C11: every signal analyzeMarkets returns, per model or ensemble, has
\* edge >= TRADING.edgeThreshold and confidence >=
\* ESTIMATION.stage2MinConfidence
C11_SignalsPassThresholds ==
    (prog = "analyzer" /\ call.done) =>
        \A i \in DOMAIN call.signals :
            /\ call.signals[i].edge >= EdgeThreshold
            /\ call.signals[i].confidence >= Stage2MinConfidence

analyzed == prog = "analyzer" /\ call.done

\* the per-model signals on a market among the returned signals, and the
\* ensemble signals on it
perModel(id) ==
    SelectSeq(call.signals, LAMBDA g : g.market.id = id /\ g.model # "ensemble")

ensembleFor(id) ==
    SelectSeq(call.signals, LAMBDA g : g.market.id = id /\ g.model = "ensemble")

onSide(s, side) == SelectSeq(s, LAMBDA g : g.side = side)

\* the k-th smallest fairYes of the signals s, by counting
kthFairYes(s, k) ==
    CHOOSE v \in {s[i].fairYes : i \in DOMAIN s} :
        /\ Cardinality({i \in DOMAIN s : s[i].fairYes < v}) < k
        /\ Cardinality({i \in DOMAIN s : s[i].fairYes <= v}) >= k

sumOf(s, field) == SumSeq([i \in DOMAIN s |-> s[i][field]])

isConsensusOf(e, s) ==
    LET n == Len(s)
        yes == onSide(s, "YES")
        no == onSide(s, "NO")
        majority == IF Len(yes) > Len(no) THEN yes ELSE no
        k == Len(majority)
    IN  /\ e.side = (IF Len(yes) > Len(no) THEN "YES" ELSE "NO")
        /\ 2 * e.fairYes = kthFairYes(s, (n + 1) \div 2) + kthFairYes(s, n \div 2 + 1)
        /\ e.confidence * n * k = k * sumOf(majority, "confidence")
        /\ e.edge * k = sumOf(majority, "edge")

\* C12: a market with at least two per-model signals gets an ensemble signal
\* exactly when its YES and NO counts differ; the side is the majority side,
\* fairYes the median over all its signals, confidence (majority / total)
\* times the mean confidence of the majority, edge the mean edge of the
\* majority; a tie or fewer than two signals gives no ensemble signal
C12_EnsembleIsMajorityConsensus ==
    analyzed =>
        \A id \in {m.id : m \in AnalyzerMarkets} :
            LET s == perModel(id)
                e == ensembleFor(id)
                emitted == /\ Len(s) >= 2
                           /\ Len(onSide(s, "YES")) # Len(onSide(s, "NO"))
            IN  /\ Len(e) = (IF emitted THEN 1 ELSE 0)
                /\ emitted => isConsensusOf(e[1], s)

\* a 2-to-1 vote with three different fair values on one market, and a tie
\* on the other market
C12_Witness ==
    /\ analyzed
    /\ \E id \in {m.id : m \in AnalyzerMarkets} :
        /\ Len(perModel(id)) = 3
        /\ Len(onSide(perModel(id), "YES")) \in {1, 2}
        /\ Cardinality({perModel(id)[i].fairYes : i \in 1..3}) = 3
        /\ Len(ensembleFor(id)) = 1
    /\ \E id \in {m.id : m \in AnalyzerMarkets} :
        /\ Len(perModel(id)) = 2
        /\ Len(onSide(perModel(id), "YES")) = 1
        /\ Len(ensembleFor(id)) = 0
\* the sizes of the positions accepted before the i-th
acceptedBefore(list, i) == SumSeq([j \in 1..(i - 1) |-> list[j].positionSize])

\* C13: sizePositions returns nothing when the open count is at least
\* maxOpenPositions, otherwise at most min(maxTradesPerCycle,
\* maxOpenPositions - open count) positions, each sized against the starting
\* balance less the sizes accepted before it, so that the accepted sizes sum
\* to at most the starting balance (to nothing when the balance is negative)
C13_BatchWithinLimitsAndBalance ==
    (prog = "sizer" /\ sz.listDone) =>
        /\ sz.openCount >= MaxOpenPositions => sz.list = <<>>
        /\ sz.openCount < MaxOpenPositions =>
              Len(sz.list) <= Min(MaxTradesPerCycle, MaxOpenPositions - sz.openCount)
        /\ \A i \in DOMAIN sz.list :
              Some(sz.list[i].positionSize)
                  = sizeOne(sz.list[i].signal,
                            sz.balance - acceptedBefore(sz.list, i))
        /\ SumSeq([i \in DOMAIN sz.list |-> sz.list[i].positionSize])
              <= Max(sz.balance, 0)

\* three signals offered, two accepted, the second for less than the
\* starting balance would have given it
C13_Witness ==
    /\ prog = "sizer"
    /\ sz.listDone
    /\ Len(sz.signals) = 3
    /\ Len(sz.list) = 2
    /\ Some(sz.list[2].positionSize) # sizeOne(sz.list[2].signal, sz.balance)
\* the trade opened for $100 at entry price 0.40 on the YES side
exampleTrade ==
    newTrade([signal |-> Sig(1, "deepseek", "YES", 40, 60), positionSize |-> 10000],
             "deepseek")

\* C14: a resolved trade's pnl is shares x 1.0 - size when the outcome is
\* the trade's side and -size otherwise, with shares = size / entryPrice
\* ($100 at 0.40 gives 250 shares and pnl $150 on a matching outcome); no
\* trade loses more than its size
C14_PnlFromSharesAndSize ==
    /\ exampleTrade.hypotheticalShares = 25000
    /\ calculatePnl(exampleTrade, "YES") = 15000
    /\ calculatePnl(exampleTrade, "NO") = 0 - 10000
    /\ \A st \in liveStates : \A i \in DOMAIN st.trades :
          LET tr == st.trades[i]
          IN  /\ tr.hypotheticalShares * tr.entryPrice = tr.hypotheticalSize * 100
              /\ tr.resolved =>
                    /\ tr.pnl = Some(IF tr.resolution = tr.side
                                     THEN tr.hypotheticalShares - tr.hypotheticalSize
                                     ELSE 0 - tr.hypotheticalSize)
                    /\ tr.pnl[1] >= 0 - tr.hypotheticalSize

\* a state with a trade resolved for its side and a trade resolved against
C14_Witness ==
    \E st \in liveStates : \E i, j \in DOMAIN st.trades :
        /\ st.trades[i].resolved /\ st.trades[i].resolution = st.trades[i].side
        /\ st.trades[i].pnl[1] > 0
        /\ st.trades[j].resolved /\ st.trades[j].resolution # st.trades[j].side
        /\ st.trades[j].pnl[1] < 0
\* C15: a failing upstream call never ends the process nor aborts the
\* cycle: a cycle that leaves its scan step has returned and has persisted
\* its state, counted as one more cycle
C15_CycleSurvivesUpstreamFailure ==
    [][\A s \in Slots :
          (cyc[s].pc = "scan" /\ cyc'[s].pc # "scan") =>
              /\ cyc'[s].pc = "idle"
              /\ file' # None
              /\ file'[1].cycleCount = cyc[s].state.cycleCount + 1]_vars
(***************************************************************************)
(* loadPaperState without a readable file.  DEFAULT_STATE is one object     *)
(* for the life of the process, and { ...DEFAULT_STATE, startedAt } copies  *)
(* its fields one level deep: the numbers are copied, the `trades` array    *)
(* and the `modelBankrolls` object are the ones of DEFAULT_STATE.           *)
(* `call.shared` is the content of these two objects.                       *)
(***************************************************************************)
MaxLoads == 3         \* calls of loadPaperState in one run

\* the object loadPaperState returns at paper-trader.ts:73
defaultCopy(shared) ==
    [DEFAULT_STATE EXCEPT !.trades = shared.trades,
                          !.modelBankrolls = shared.modelBankrolls]

\* what a cycle leaves in the two shared objects
sharedOf(state) == [trades |-> state.trades, modelBankrolls |-> state.modelBankrolls]

\* runPaperCycle on a state, all of it: the markets are as `w`, the
\* estimators give the signals `signals`
wholeCycle(state, w, signals, t) ==
    LET state1 == resetDailyCost(ensureModelBankrolls(state), t)
        state2 == IF state1.trades = <<>> THEN state1
                  ELSE resolveAndCredit(state1,
                           [m \in unresolvedMarketIds(state1.trades) |-> w[m]], t)
        state3 == addCost(state2, MaxCycleCost)
    IN  countCycle(IF signals = <<>> THEN state3 ELSE openTrades(state3, signals))

LoaderWorlds ==
    {[m \in Markets |-> OpenStatus],
     [m \in Markets |-> Status(TRUE, TRUE, <<100, 0>>)]}

InitLoader ==
    /\ prog = "loader"
    /\ atRest
    /\ call = [shared |-> [trades |-> <<>>, modelBankrolls |-> <<>>],
               loads |-> 0, held |-> FALSE, state |-> DEFAULT_STATE]

\* the state file is missing, or JSON.parse throws on it
LoadCall ==
    /\ prog = "loader"
    /\ ~call.held
    /\ call.loads < MaxLoads
    /\ \E cause \in {"missing", "unparseable"} :
        call' = [call EXCEPT !.loads = @ + 1, !.held = TRUE,
                             !.state = defaultCopy(call.shared)]
    /\ onlyCall

\* a cycle runs on the state just loaded; its file is lost afterwards
CycleCall ==
    /\ prog = "loader"
    /\ call.held
    /\ \E w \in LoaderWorlds, c \in {{}} \cup SignalChoices :
        LET after == wholeCycle(call.state, w, pick(SignalMenu, c, 1), now)
        IN  call' = [call EXCEPT !.held = FALSE, !.state = after,
                                 !.shared = sharedOf(after)]
    /\ onlyCall

NextLoader ==
    \/ LoadCall
    \/ CycleCall

SpecLoader == InitLoader /\ [][NextLoader]_vars

\* C16: loadPaperState without a readable file returns a fresh default
\* state, with no trades, the initial bankroll and cycle count 0, whatever
\* was done to the states returned by earlier loads
C16_LoadReturnsFreshDefault ==
    (prog = "loader" /\ call.held) =>
        /\ call.state.trades = <<>>
        /\ call.state.simulatedBankroll = InitialBankroll
        /\ call.state.cycleCount = 0
(***************************************************************************)
(* estimator.ts: callOpenRouter and the fallback chain of screenBatch.     *)
(* Waits are in seconds.                                                   *)
(***************************************************************************)
maxRetries == 3               \* const maxRetries = 3
BackoffSeconds == 5           \* (attempt + 1) * 5000 ms

\* ESTIMATION.stage1Models, the fallback chain
stage1Models == <<"deepseek", "gemma", "hermes">>

\* a retry that is also granted at the last attempt
retryGrantedAtLast(status, attempt) == status = 429 /\ attempt <= maxRetries

\* response.status === 429 && attempt < maxRetries
retryGranted(status, attempt) == status = 429 /\ attempt < maxRetries

\* the texts a model can answer with: nothing, a JSON array, objects
\* without the brackets, and text that is no JSON
ResponseTexts == {"", "array", "objects", "garbage"}

\* the second half of screenBatch: the estimates parsed from the response;
\* "" becomes "[]" and parses to the empty array, a JSON.parse that throws
\* is caught and gives the empty list
parseScreen(response) ==
    IF response \in {"array", "objects"} THEN <<"estimate">> ELSE <<>>

\* the requests a server can answer: a status with a text, or no answer
Answers ==
    {[status |-> 200, text |-> t] : t \in ResponseTexts}
        \cup {[status |-> st, text |-> "garbage"] : st \in {429, 500}}
        \cup {[status |-> 0, text |-> ""]}

newCall == [attempt |-> 0, requests |-> 0, waits |-> <<>>]

InitEstimator ==
    /\ prog = "estimator"
    /\ atRest
    /\ call = [pc |-> "chain", model |-> 1, cur |-> newCall, past |-> <<>>,
               response |-> "", estimates |-> <<>>]

\* the call for the current model is over with `outcome`: screenBatch
\* breaks out of the chain with a text, or goes on to the next model
endCall(cur, outcome, text) ==
    LET past == Append(call.past, [outcome |-> outcome, requests |-> cur.requests,
                                   waits |-> cur.waits])
    IN  IF outcome = "text"
        THEN [call EXCEPT !.pc = "parse", !.cur = cur, !.past = past,
                          !.response = text]
        ELSE IF call.model = Len(stage1Models)
        THEN [call EXCEPT !.pc = "parse", !.cur = cur, !.past = past]
        ELSE [call EXCEPT !.model = @ + 1, !.cur = newCall, !.past = past]

\* one iteration of the loop of callOpenRouter: a request and its answer
RequestStep ==
    /\ prog = "estimator"
    /\ call.pc = "chain"
    /\ \E answer \in Answers :
        LET attempt == call.cur.attempt
            sent == [call.cur EXCEPT !.requests = @ + 1]
        IN  call' =
              IF answer.status = 0 THEN endCall(sent, "threw", "")
              ELSE IF retryGranted(answer.status, attempt)
              THEN LET waited == [sent EXCEPT
                                    !.waits = Append(@, (attempt + 1) * BackoffSeconds),
                                    !.attempt = @ + 1]
                   IN  IF waited.attempt <= maxRetries
                       THEN [call EXCEPT !.cur = waited]
                       ELSE endCall(waited, "threw", "")
              ELSE IF answer.status # 200 THEN endCall(sent, "threw", "")
              ELSE IF answer.text = "" THEN endCall(sent, "empty", "")
              ELSE endCall(sent, "text", answer.text)
    /\ onlyCall

\* the rest of screenBatch, in its try
ParseStep ==
    /\ prog = "estimator"
    /\ call.pc = "parse"
    /\ call' = [call EXCEPT !.pc = "done", !.estimates = parseScreen(call.response)]
    /\ onlyCall

NextEstimator ==
    \/ RequestStep
    \/ ParseStep

SpecEstimator == InitEstimator /\ [][NextEstimator]_vars

callsSoFar ==
    call.past \o (IF call.pc = "chain" THEN <<[outcome |-> "running",
                      requests |-> call.cur.requests, waits |-> call.cur.waits]>>
                  ELSE <<>>)

\* C17: a call is retried on 429 at most 3 times, after 5 s, 10 s and 15 s,
\* so it sends at most 4 requests and then fails; screenBatch then goes on
\* to the next model of the chain, and a chain in which every model failed
\* ends with no estimates, the batch being done
C17_BoundedRetryThenFallback ==
    prog = "estimator" =>
        /\ \A i \in DOMAIN callsSoFar :
              LET c == callsSoFar[i]
              IN  /\ Len(c.waits) <= 3
                  /\ \A k \in DOMAIN c.waits : c.waits[k] = 5 * k
                  /\ c.requests <= 4
                  /\ c.requests <= Len(c.waits) + 1
                  /\ (c.requests = 4 /\ Len(c.waits) = 3) => c.outcome # "running"
        /\ \A i \in DOMAIN call.past :
              i < Len(call.past) => call.past[i].outcome # "text"
        /\ call.pc = "chain" => call.model = Len(call.past) + 1
        /\ (call.pc = "done" /\ \A i \in DOMAIN call.past : call.past[i].outcome # "text")
              => (Len(call.past) = Len(stage1Models) /\ call.estimates = <<>>)

\* every model of the chain has been tried, the first after three retries
\* and a fourth 429, and the batch is over
C17_Witness ==
    /\ prog = "estimator"
    /\ call.pc = "done"
    /\ Len(call.past) = Len(stage1Models)
    /\ call.past[1].waits = <<5, 10, 15>>
    /\ call.past[1].requests = 4
    /\ \A i \in DOMAIN call.past : call.past[i].outcome = "threw"
(***************************************************************************)
(* scripts/report.ts: main, run on a file the paper trader has written.    *)
(***************************************************************************)
ReportWorlds ==
    LoaderWorlds \cup {[m \in Markets |-> Status(TRUE, TRUE, <<0, 100>>)]}

\* the files of a trader that has run two cycles
ReportFiles ==
    {wholeCycle(wholeCycle(DEFAULT_STATE, [m \in Markets |-> OpenStatus],
                           pick(SignalMenu, c1, 1), 1),
                w, pick(SignalMenu, c2, 1), 1 + CycleIntervalMs) :
        c1 \in SignalChoices, c2 \in {{}} \cup SignalChoices, w \in ReportWorlds}

\* main of the report script, up to savePaperState
reportMain(state, w, t) ==
    IF state.trades = <<>> THEN state
    ELSE LET checked == [state EXCEPT !.trades =
                 checkResolutions(@, [m \in unresolvedMarketIds(@) |-> w[m]], t)]
         IN  [checked EXCEPT !.simulatedBankroll = recomputeBankroll(checked)]

InitReport ==
    /\ prog = "report"
    /\ atRest
    /\ \E f \in ReportFiles : call = [state |-> f, done |-> FALSE]

ReportCall ==
    /\ prog = "report"
    /\ ~call.done
    /\ \E w \in ReportWorlds :
        call' = [state |-> reportMain(call.state, w, 1 + 2 * CycleIntervalMs),
                 done |-> TRUE]
    /\ onlyCall

NextReport == ReportCall

SpecReport == InitReport /\ [][NextReport]_vars

unresolvedTrades(state) == SelectSeq(state.trades, LAMBDA tr : ~tr.resolved)

resolvedTrades(state) == SelectSeq(state.trades, LAMBDA tr : tr.resolved)

\* C18 as stated: the recomputed bankroll is the initial bankroll, less the
\* sizes of the trades not yet resolved, plus size + pnl of the resolved
C18_RecomputedAddsSizeAndPnl ==
    (prog = "report" /\ call.done) =>
        call.state.simulatedBankroll
            = call.state.initialBankroll - sizes(unresolvedTrades(call.state))
                + sizes(resolvedTrades(call.state)) + pnls(resolvedTrades(call.state))

\* C18, every cost deducted: the recomputed bankroll is the initial bankroll, less the
\* sizes of all trades, plus size + pnl of the resolved trades; that is,
\* less the sizes of the unresolved trades, plus the pnl of the resolved
C18_RecomputedBankroll ==
    (prog = "report" /\ call.done) =>
        /\ call.state.simulatedBankroll
            = call.state.initialBankroll - sizes(call.state.trades)
                + sizes(resolvedTrades(call.state)) + pnls(resolvedTrades(call.state))
        /\ call.state.simulatedBankroll
            = call.state.initialBankroll - sizes(unresolvedTrades(call.state))
                + pnls(resolvedTrades(call.state))

\* a report over a history with resolved and unresolved trades
C18_Witness ==
    /\ prog = "report"
    /\ call.done
    /\ unresolvedTrades(call.state) # <<>>
    /\ \E i, j \in DOMAIN call.state.trades :
        /\ call.state.trades[i].resolved /\ call.state.trades[i].pnl[1] > 0
        /\ call.state.trades[j].resolved /\ call.state.trades[j].pnl[1] < 0
(***************************************************************************)
(* reporter.ts: calibration buckets and Brier score over the resolved      *)
(* trades.  Probabilities are in percent; a quotient is kept as numerator  *)
(* and denominator.                                                        *)
(***************************************************************************)
BUCKET_RANGES ==
    [i \in 1..10 |-> [lower |-> 10 * (i - 1), upper |-> 10 * i]]

\* the implied probability of the side taken
impliedProb(t) == IF t.side = "YES" THEN t.fairYes ELSE 100 - t.fairYes

inBucket(resolved, range) ==
    SelectSeq(resolved, LAMBDA t :
        impliedProb(t) >= range.lower /\ impliedProb(t) < range.upper)

buildCalibrationBuckets(resolved) ==
    [i \in DOMAIN BUCKET_RANGES |->
        [lower |-> BUCKET_RANGES[i].lower,
         upper |-> BUCKET_RANGES[i].upper,
         predictions |-> Len(inBucket(resolved, BUCKET_RANGES[i])),
         resolvedYes |-> Len(SelectSeq(inBucket(resolved, BUCKET_RANGES[i]),
                                       LAMBDA t : t.side = t.resolution))]]

\* a term that takes the outcome of the side for the outcome of YES
brierTermOfSide(trade) ==
    LET outcome == IF trade.side = trade.resolution THEN 100 ELSE 0
    IN  (trade.fairYes - outcome) * (trade.fairYes - outcome)

\* (forecast - outcome) ** 2, in 1/10000
brierTerm(trade) ==
    LET outcome == IF trade.resolution = "YES" THEN 100 ELSE 0
    IN  (trade.fairYes - outcome) * (trade.fairYes - outcome)

\* brierSum / resolved.length; 0 / 0 is NaN
brierScore(resolved) ==
    [nan |-> resolved = <<>>,
     num |-> SumSeq([i \in DOMAIN resolved |-> brierTerm(resolved[i])]),
     den |-> 10000 * Len(resolved)]

MaxResolved == 2      \* resolved trades in one report

ReporterFairYes == {0, 9, 10, 50, 99, 100}

ReporterTrades ==
    [side : {"YES", "NO"}, fairYes : ReporterFairYes, resolution : {"YES", "NO"}]

ReporterInputs ==
    UNION {[1..n -> ReporterTrades] : n \in 0..MaxResolved}

InitReporter ==
    /\ prog = "reporter"
    /\ atRest
    /\ \E resolved \in ReporterInputs :
        call = [resolved |-> resolved, bucketsDone |-> FALSE, buckets |-> <<>>,
                brierDone |-> FALSE, brier |-> brierScore(<<>>)]

BucketsCall ==
    /\ prog = "reporter"
    /\ ~call.bucketsDone
    /\ call' = [call EXCEPT !.bucketsDone = TRUE,
                            !.buckets = buildCalibrationBuckets(call.resolved)]
    /\ onlyCall

BrierCall ==
    /\ prog = "reporter"
    /\ ~call.brierDone
    /\ call.resolved # <<>>
    /\ call' = [call EXCEPT !.brierDone = TRUE,
                            !.brier = brierScore(call.resolved)]
    /\ onlyCall

NextReporter ==
    \/ BucketsCall
    \/ BrierCall

SpecReporter == InitReporter /\ [][NextReporter]_vars

forecastIsOutcome(t) == t.fairYes = (IF t.resolution = "YES" THEN 100 ELSE 0)

forecastIsOpposite(t) == t.fairYes = (IF t.resolution = "YES" THEN 0 ELSE 100)

UpDownInitialBankroll == 1000000 \* UPDOWN_TRADING.initialBankroll
UpDownMaxPositionPct == 5        \* UPDOWN_TRADING.maxPositionPct
UpDownMaxPositionUsd == 50000    \* UPDOWN_TRADING.maxPositionUsd
UpDownMinSize == 100             \* size < 1
ForgetDelay == 1                 \* setTimeout(..., 15_000)
StatusLogInterval == 2           \* UPDOWN_TRADING.statusLogIntervalMs
MaxUpDownTime == 2               \* bound on the clock
MaxUpDownTrades == 2             \* bound on the trades of one run

UpDownMarket(id, strike, end, yes, no) ==
    [marketId |-> id, strikePrice |-> strike, windowEnd |-> end,
     currentYes |-> yes, currentNo |-> no]

\* what the Gamma API lists: a market with a strike and one without
UpDownMarkets ==
    <<UpDownMarket(1, 100, 1, 50, 48), UpDownMarket(2, 0, 2, 40, 62)>>

UpDownIds == DOMAIN UpDownMarkets

FeedPrices == {90, 110}

Sources == {"loop", "move", "new"}

IdleTask == [todo |-> <<>>, awaiting |-> None]

updownDefaultState ==
    [bankroll |-> UpDownInitialBankroll, trades |-> <<>>, openPositions |-> <<>>]

\* the signals evaluateMarket may return for a market
signalsFor(market) ==
    {[type |-> "latency", market |-> market, confidence |-> 45, action |-> "buy-yes"],
     [type |-> "complete-set", market |-> market, confidence |-> 99,
      action |-> "buy-both"]}

tradeSize(state, signal) ==
    IF signal.type = "complete-set"
    THEN Min(Min(state.bankroll \div 10, UpDownMaxPositionUsd * 2), state.bankroll)
    ELSE LET baseSize == (state.bankroll * UpDownMaxPositionPct) \div 100
         IN  Min(Min((baseSize * signal.confidence) \div 100, UpDownMaxPositionUsd),
                 state.bankroll)

sharesOf(size, signal) ==
    IF signal.action = "buy-both"
    THEN (size * 100) \div (signal.market.currentYes + signal.market.currentNo)
    ELSE IF signal.action = "buy-yes"
         THEN (size * 100) \div signal.market.currentYes
         ELSE (size * 100) \div signal.market.currentNo

sideOf(action) ==
    IF action = "buy-both" THEN "BOTH" ELSE IF action = "buy-yes" THEN "YES" ELSE "NO"

priceOr0(latest) == IF latest = None THEN 0 ELSE latest[1]

\* executePaperTrade: the state after the call (unchanged when it returns null)
updownExecutePaperTrade(state, signal, latest) ==
    LET size == tradeSize(state, signal)
        trade == [id |-> Len(state.trades) + 1,
                  marketId |-> signal.market.marketId,
                  strikePrice |-> signal.market.strikePrice,
                  windowEnd |-> signal.market.windowEnd,
                  strategy |-> signal.type,
                  side |-> sideOf(signal.action),
                  entryPriceYes |-> signal.market.currentYes,
                  entryPriceNo |-> signal.market.currentNo,
                  size |-> size,
                  shares |-> sharesOf(size, signal),
                  binancePriceAtEntry |-> priceOr0(latest),
                  resolved |-> FALSE, outcome |-> None,
                  binancePriceAtExpiry |-> None, pnl |-> None]
    IN  IF size < UpDownMinSize
        THEN state
        ELSE [state EXCEPT !.bankroll = @ - size,
                           !.openPositions = Append(@, trade),
                           !.trades = Append(@, trade)]

outcomeOf(trade, expiryPrice) ==
    IF trade.strikePrice > 0
    THEN IF expiryPrice >= trade.strikePrice THEN "YES" ELSE "NO"
    ELSE IF expiryPrice >= trade.binancePriceAtEntry THEN "YES" ELSE "NO"

pnlOf(trade, outcome) ==
    IF trade.side = "BOTH"
    THEN (trade.shares * (100 - (trade.entryPriceYes + trade.entryPriceNo))) \div 100
    ELSE IF trade.side = outcome
         THEN (trade.shares * (100 - (IF trade.side = "YES" THEN trade.entryPriceYes
                                                             ELSE trade.entryPriceNo)))
                 \div 100
         ELSE 0 - trade.size

resolveTrade(trade, latest) ==
    LET expiryPrice == priceOr0(latest)
        outcome == outcomeOf(trade, expiryPrice)
    IN  [trade EXCEPT !.binancePriceAtExpiry = Some(expiryPrice),
                      !.outcome = Some(outcome),
                      !.resolved = TRUE,
                      !.pnl = Some(pnlOf(trade, outcome))]

\* the trade list left as it was
replaceNone(trades, trade) == trades

\* state.trades[fullIdx] = trade, for the index found by id
replaceById(trades, trade) ==
    [k \in DOMAIN trades |-> IF trades[k].id = trade.id THEN trade ELSE trades[k]]

dropAt(s, i) == SubSeq(s, 1, i - 1) \o SubSeq(s, i + 1, Len(s))

\* the loop of resolveExpired, from position i of openPositions down to 1
RECURSIVE resolveLoop(_, _, _, _)
resolveLoop(state, i, latest, t) ==
    IF i = 0 THEN state
    ELSE LET trade == state.openPositions[i]
         IN  IF trade.windowEnd > t
             THEN resolveLoop(state, i - 1, latest, t)
             ELSE LET done == resolveTrade(trade, latest)
                  IN  resolveLoop([state EXCEPT
                                     !.bankroll = @ + done.size + done.pnl[1],
                                     !.trades = replaceById(@, done),
                                     !.openPositions = dropAt(@, i)],
                                  i - 1, latest, t)

updownResolveExpired(state, latest, t) ==
    resolveLoop(state, Len(state.openPositions), latest, t)

\* a state file left by an earlier run: a position on market 1 and little money
PersistedStates ==
    {[updownExecutePaperTrade(updownDefaultState,
                        [type |-> "latency", market |-> UpDownMarkets[1],
                         confidence |-> 45, action |-> "buy-yes"], Some(110))
        EXCEPT !.bankroll = 1500]}

\* loadState
LoadedStates == {updownDefaultState} \cup PersistedStates

activeList(active) ==
    SelectSeq([k \in UpDownIds |-> k], LAMBDA k : k \in active)

RECURSIVE skipEvaluated(_, _)
skipEvaluated(todo, evaluated) ==
    IF todo = <<>> THEN <<>>
    ELSE IF evaluated[Head(todo)] # None THEN skipEvaluated(Tail(todo), evaluated)
         ELSE todo

\* the end of an invocation: the main loop logs, saves and sleeps
finish(c, src) ==
    IF src = "loop"
    THEN [c EXCEPT !.task[src] = IdleTask, !.saved = Some(c.state),
                   !.wake = c.clock + StatusLogInterval]
    ELSE [c EXCEPT !.task[src] = IdleTask]

inSeq(x, s) == \E k \in DOMAIN s : s[k] = x

\* evaluateAllMarkets from the market at the head of `todo` to its next await.
\* Without a price of the feed evaluateMarket returns null before it awaits
\* anything, and the loop goes through all the markets in one go.
advance(c, src, todo) ==
    LET rest == skipEvaluated(todo, c.evaluated)
    IN  IF rest = <<>>
        THEN finish(c, src)
        ELSE IF c.latest = None
             THEN finish([c EXCEPT !.evaluated =
                             [m \in UpDownIds |->
                                IF inSeq(m, rest) /\ @[m] = None
                                THEN Some(c.clock) ELSE @[m]]], src)
             ELSE [c EXCEPT !.evaluated[Head(rest)] = Some(c.clock),
                            !.task[src] = [todo |-> Tail(rest),
                                           awaiting |-> Some(Head(rest))]]

InitUpDown ==
    /\ prog = "updown"
    /\ atRest
    /\ \E loaded \in LoadedStates :
        call = [state |-> loaded,
                saved |-> IF loaded = updownDefaultState THEN None ELSE Some(loaded),
                latest |-> None,
                active |-> {},
                evaluated |-> [m \in UpDownIds |-> None],
                task |-> [s \in Sources |-> IdleTask],
                wake |-> 0,
                newStarted |-> None,
                clock |-> 0]

\* one iteration of the main loop, up to the first await of evaluateAllMarkets
UpDownLoop ==
    /\ prog = "updown"
    /\ call.task["loop"] = IdleTask
    /\ call.clock >= call.wake
    /\ LET after == updownResolveExpired(call.state, call.latest, call.clock)
           c1 == [call EXCEPT !.state = after,
                              !.saved = IF after # call.state THEN Some(after) ELSE @]
       IN  call' = advance(c1, "loop", activeList(call.active))
    /\ onlyCall

\* handleMatch: the latest price, then the price-move callback
PriceTick ==
    /\ prog = "updown"
    /\ \E p \in FeedPrices, significant \in BOOLEAN :
        LET c1 == [call EXCEPT !.latest = Some(p)]
        IN  /\ significant => call.task["move"] = IdleTask
            /\ call' = IF significant
                       THEN advance(c1, "move", activeList(call.active))
                       ELSE c1
    /\ onlyCall

\* evaluateMarket returns to evaluateAllMarkets, which goes on to its next await
MarketEvaluated ==
    /\ prog = "updown"
    /\ \E src \in {"loop", "move"} :
        /\ call.task[src].awaiting # None
        /\ LET market == UpDownMarkets[call.task[src].awaiting[1]]
           IN  \E result \in {None} \cup
                     {Some(s) : s \in signalsFor(market)} :
                 LET after == IF result = None THEN call.state
                              ELSE updownExecutePaperTrade(call.state, result[1], call.latest)
                     c1 == [call EXCEPT !.state = after,
                                        !.saved = IF after # call.state
                                                  THEN Some(after) ELSE @]
                 IN  /\ Len(after.trades) <= MaxUpDownTrades
                     /\ call' = advance(c1, src, call.task[src].todo)
    /\ onlyCall

\* poll of the scanner: a new market and its callback, then the pruning;
\* newStarted is the time at which the evaluation of the callback began
ScannerPoll ==
    /\ prog = "updown"
    /\ \E found \in SUBSET {m \in UpDownIds : /\ m \notin call.active
                                             /\ UpDownMarkets[m].windowEnd > call.clock} :
        /\ Cardinality(found) <= 1
        /\ found # {} => call.task["new"] = IdleTask
        /\ call' = [call EXCEPT
                      !.active = {m \in @ \cup found :
                                    UpDownMarkets[m].windowEnd > call.clock},
                      !.task["new"] =
                          IF found = {} \/ call.latest = None THEN @
                          ELSE [todo |-> <<>>,
                                awaiting |-> Some(CHOOSE m \in found : TRUE)],
                      !.newStarted =
                          IF found = {} \/ call.latest = None THEN @
                          ELSE Some(call.clock)]
    /\ onlyCall

\* evaluateMarket returns to the new-market callback
NewMarketEvaluated ==
    /\ prog = "updown"
    /\ call.task["new"].awaiting # None
    /\ LET market == UpDownMarkets[call.task["new"].awaiting[1]]
       IN  \E result \in {None} \cup
                 {Some(s) : s \in signalsFor(market)} :
             LET after == IF result = None THEN call.state
                          ELSE updownExecutePaperTrade(call.state, result[1], call.latest)
             IN  /\ Len(after.trades) <= MaxUpDownTrades
                 /\ call' = [call EXCEPT !.state = after,
                                         !.saved = IF after # call.state
                                                   THEN Some(after) ELSE @,
                                         !.task["new"] = IdleTask,
                                         !.newStarted = None]
    /\ onlyCall

forgetDue(c, m) ==
    /\ c.evaluated[m] # None
    /\ c.clock >= c.evaluated[m][1] + ForgetDelay

\* the timer set by evaluateAllMarkets deletes the id
Forget ==
    /\ prog = "updown"
    /\ \E m \in UpDownIds :
        /\ forgetDue(call, m)
        /\ call' = [call EXCEPT !.evaluated[m] = None]
    /\ onlyCall

UpDownTick ==
    /\ prog = "updown"
    /\ call.clock < MaxUpDownTime
    /\ \A m \in UpDownIds : ~forgetDue(call, m)
    /\ ~(call.task["loop"] = IdleTask /\ call.clock >= call.wake)
    /\ call' = [call EXCEPT !.clock = @ + 1]
    /\ onlyCall

NextUpDown ==
    \/ UpDownLoop
    \/ PriceTick
    \/ MarketEvaluated
    \/ ScannerPoll
    \/ NewMarketEvaluated
    \/ Forget
    \/ UpDownTick

SpecUpDown == InitUpDown /\ [][NextUpDown]_vars

openOn(state, m) ==
    SelectSeq(state.openPositions, LAMBDA t : t.marketId = m)

\* C21: the up/down bot holds at most one open position on a market, whatever
\* the interleaving of the main loop and the two callbacks
C21_OneOpenPositionPerMarket ==
    prog = "updown" =>
        \A m \in UpDownIds : Len(openOn(call.state, m)) <= 1

sameTrade(a, b) ==
    /\ a.marketId = b.marketId
    /\ a.model = b.model
    /\ a.side = b.side
    /\ a.entryPrice = b.entryPrice
    /\ a.hypotheticalSize = b.hypotheticalSize

\* C22: a trade opened, or a resolution recorded, and saved by one paper cycle
\* is still in the state file after every later save
C22_SavedTradesStayInFile ==
    [][(prog = "paper" /\ file # None /\ file' # None) =>
          \A i \in DOMAIN file[1].trades :
              \E j \in DOMAIN file'[1].trades :
                  /\ sameTrade(file[1].trades[i], file'[1].trades[j])
                  /\ file[1].trades[i].resolved
                        => file'[1].trades[j] = file[1].trades[i]]_vars

(***************************************************************************)
(* The paper trader under its scheduling.  The event loop runs every timer *)
(* that is due and the clock advances, so FirstCycle, TimerFire and Tick   *)
(* are weakly fair.  ResolveStep and the Scan steps are the continuations  *)
(* of `await axios.get(...)` and `await fetch(...)`: no request is given a *)
(* timeout, so they happen only if the remote end answers, and they carry  *)
(* no fairness.                                                            *)
(***************************************************************************)
SpecLive ==
    /\ Init
    /\ [][Next]_vars
    /\ WF_vars(FirstCycle)
    /\ WF_vars(TimerFire)
    /\ WF_vars(Tick)

\* C23: every paper cycle that starts eventually finishes, also when a call
\* to an estimator, to the market source or to the resolution source never
\* responds
C23_StartedCycleFinishes ==
    \A s \in Slots :
        (cyc[s].pc \notin {"idle", "exited"}) ~> (cyc[s].pc \in {"idle", "exited"})

(***************************************************************************)
(* The sizing of the Kalshi paper engine in the arithmetic of the source.  *)
(* A JavaScript number is [nan |-> TRUE] or a finite value; prices and     *)
(* probabilities in percent, money in cents.  The signals are those of     *)
(* evaluateCryptoPrice for the markets that pass the scanner's filter.     *)
(***************************************************************************)
Num(v) == [nan |-> FALSE, v |-> v]
NaN == [nan |-> TRUE, v |-> 0]

CryptoPriceMinEdge == 3          \* KALSHI_TRADING.cryptoPriceMinEdge
MaxSizedTrades == 3              \* bound on the signals of one run

\* the ask prices of mapMarket, 0 for a side without an ask; the filter of
\* the scanner drops a market only when both are 0
AskPrices == {<<60, 42>>, <<42, 60>>, <<60, 0>>}
KalshiFairValues == {20, 45, 70}

\* the choice of the side by evaluateCryptoPrice; fairValue is P(YES)
chooseSide(ticker, asks, fairValue) ==
    LET yesEdge == fairValue - asks[1]
        noEdge == (100 - fairValue) - asks[2]
    IN  IF yesEdge > noEdge /\ yesEdge > CryptoPriceMinEdge
        THEN Some([ticker |-> ticker, side |-> "yes", fairValue |-> fairValue,
                   marketPrice |-> asks[1], edge |-> yesEdge])
        ELSE IF noEdge > CryptoPriceMinEdge
             THEN Some([ticker |-> ticker, side |-> "no", fairValue |-> fairValue,
                        marketPrice |-> asks[2], edge |-> noEdge])
             ELSE None

\* (b * p - q) / b with b = 1 / marketPrice - 1: Infinity / Infinity for a
\* price of 0, else (p - price) / (1 - price), here in 1/10000
kellyOf(signal) ==
    IF signal.marketPrice = 0 THEN NaN
    ELSE Num(Max(0, ((signal.fairValue - signal.marketPrice) * 10000)
                        \div (100 - signal.marketPrice)))

\* calculateSize: Math.min of a NaN is NaN
sizeOf(bankroll, signal) ==
    IF bankroll.nan \/ kellyOf(signal).nan THEN NaN
    ELSE Num(calculateSize([bankroll |-> bankroll.v], signal))

\* size < 1 is false for NaN
tooSmall(size) == ~size.nan /\ size.v < KalshiMinSize

minus(a, b) == IF a.nan \/ b.nan THEN NaN ELSE Num(a.v - b.v)

\* executePaperTrade of the Kalshi engine on a state with a Num bankroll
executeSized(state, signal) ==
    IF \E i \in DOMAIN state.openPositions :
            state.openPositions[i].ticker = signal.ticker
    THEN state
    ELSE LET size == sizeOf(state.bankroll, signal)
         IN  IF tooSmall(size) THEN state
             ELSE [state EXCEPT
                     !.bankroll = minus(@, size),
                     !.openPositions =
                         Append(@, [ticker |-> signal.ticker, side |-> signal.side,
                                    entryPrice |-> signal.marketPrice,
                                    size |-> size])]

InitKalshiSizing ==
    /\ prog = "kalshisizing"
    /\ atRest
    /\ call = [state |-> [bankroll |-> Num(KalshiInitialBankroll),
                          openPositions |-> <<>>],
               before |-> None, signal |-> None, signals |-> 0]

\* a market is evaluated; a signal is handed to executePaperTrade
SizedTrade ==
    /\ prog = "kalshisizing"
    /\ call.signals < MaxSizedTrades
    /\ \E ticker \in Tickers, asks \in AskPrices, fairValue \in KalshiFairValues :
        LET signal == chooseSide(ticker, asks, fairValue)
        IN  /\ signal # None
            /\ call' = [state |-> executeSized(call.state, signal[1]),
                        before |-> Some(call.state), signal |-> signal,
                        signals |-> call.signals + 1]
    /\ onlyCall

\* a position is closed at a loss: the bankroll keeps what is left
PositionLost ==
    /\ prog = "kalshisizing"
    /\ call.state.openPositions # <<>>
    /\ call' = [state |-> [call.state EXCEPT !.openPositions = Tail(@)],
                before |-> None, signal |-> None, signals |-> call.signals]
    /\ onlyCall

NextKalshiSizing ==
    \/ SizedTrade
    \/ PositionLost

SpecKalshiSizing == InitKalshiSizing /\ [][NextKalshiSizing]_vars

executedNow ==
    /\ call.before # None
    /\ Len(call.state.openPositions) > Len(call.before[1].openPositions)

lastSize == call.state.openPositions[Len(call.state.openPositions)].size

\* C24: a trade that is executed has a finite size with 1 <= size <= the
\* bankroll at the opening, a signal that is not executed leaves the state
\* as it was, and the bankroll is a number that is not negative
C24_ExecutedSizeWithinBankroll ==
    prog = "kalshisizing" =>
        /\ ~call.state.bankroll.nan
        /\ call.state.bankroll.v >= 0
        /\ call.before # None =>
              IF executedNow
              THEN /\ ~lastSize.nan
                   /\ KalshiMinSize <= lastSize.v
                   /\ lastSize.v <= call.before[1].bankroll.v
              ELSE call.state = call.before[1]

\* C26: the p of the Kelly formula is the probability of the side bought;
\* a NO signal, whose edge is positive, has a positive Kelly fraction
C26_NoSignalHasPositiveKelly ==
    (prog = "kalshisizing" /\ call.signal # None /\ call.signal[1].side = "no")
        => (~kellyOf(call.signal[1]).nan /\ kellyOf(call.signal[1]).v > 0)

resolvedIn(state) == SelectSeq(state.trades, LAMBDA t : t.resolved)

\* C25: an expired position of the up/down bot is resolved only from a
\* reference price of the feed; without one it stays open
C25_ResolvedOnlyFromPrice ==
    [][(prog = "updown" /\ Len(resolvedIn(call'.state)) > Len(resolvedIn(call.state)))
          => call.latest # None]_vars

(***************************************************************************)
(* The fair value read from an estimator's response by the three parsers:  *)
(* screenBatch and deepAnalyze of estimator.ts, parseEstimate of the       *)
(* Kalshi LLM strategy.  A JSON value is undefined (the field is missing), *)
(* a string (with the number parseFloat reads from it, if any) or a        *)
(* number; numbers in percent.                                             *)
(***************************************************************************)
FairMargin == 20                 \* a response's numbers: from -0.20 to 1.20

Undefined == [type |-> "undefined", v |-> 0, numeric |-> FALSE]
Str(numeric, v) == [type |-> "string", v |-> v, numeric |-> numeric]
Number(v) == [type |-> "number", v |-> v, numeric |-> TRUE]

JsonValues ==
    {Undefined, Str(FALSE, 0)}
        \cup {Str(TRUE, v) : v \in (0 - FairMargin)..(100 + FairMargin)}
        \cup {Number(v) : v \in (0 - FairMargin)..(100 + FairMargin)}

parseFloatOf(x) == IF x.numeric THEN Num(x.v) ELSE NaN

\* n || 0.5: NaN and 0 are falsy
orHalf(n) == IF n.nan \/ n.v = 0 THEN 50 ELSE n.v

\* Math.max(0.01, Math.min(0.99, v))
clampFair(v) == Max(1, Min(99, v))

\* screenBatch: the fairYes of the estimate, None when there is no estimate
screenFair(x) == Some(clampFair(orHalf(parseFloatOf(x))))

\* deepAnalyze
deepFair(x) == IF x.type # "number" THEN None ELSE Some(clampFair(x.v))

\* parseEstimate
parseEstimate(x) ==
    LET probability == parseFloatOf(x)
    IN  IF probability.nan \/ probability.v < 0 \/ probability.v > 100
        THEN None
        ELSE Some(probability.v)

Parsers == {"screenBatch", "deepAnalyze", "parseEstimate"}

parsedFair(parser, x) ==
    IF parser = "screenBatch" THEN screenFair(x)
    ELSE IF parser = "deepAnalyze" THEN deepFair(x)
    ELSE parseEstimate(x)

InitParsers ==
    /\ prog = "parsers"
    /\ atRest
    /\ \E parser \in Parsers, x \in JsonValues :
        call = [parser |-> parser, fair |-> x, done |-> FALSE, result |-> None]

ParseCall ==
    /\ prog = "parsers"
    /\ ~call.done
    /\ call' = [call EXCEPT !.done = TRUE,
                            !.result = parsedFair(call.parser, call.fair)]
    /\ onlyCall

NextParsers == ParseCall

SpecParsers == InitParsers /\ [][NextParsers]_vars

validFair(x) == x.numeric /\ 0 <= x.v /\ x.v <= 100

\* C27: a response whose fair value is missing, not a number or outside
\* [0, 1] gives no estimate, and the fair value of an estimate is the one of
\* the response, neither substituted nor clamped
C27_InvalidFairDiscarded ==
    (prog = "parsers" /\ call.done) =>
        /\ ~validFair(call.fair) => call.result = None
        /\ call.result # None => call.result[1] = call.fair.v

(***************************************************************************)
(* evaluateMarket of the up/down bot (arbitrage-engine.ts, clob-reader.ts).*)
(* Order-book prices in percent, price changes of the feed in 1/100000,    *)
(* times in seconds, confidences in 1/1000, values and edges in 1/900000   *)
(* (the common denominator of estimatedFinalValue).                        *)
(***************************************************************************)
EOne == 900000
PriceUnit == 9000                \* one percent
LatencyMinEdge == 2700           \* UPDOWN_TRADING.latencyMinEdge = 0.003
CompleteSetThreshold == 895500   \* UPDOWN_TRADING.completeSetThreshold = 0.995
MomentumThreshold == 5           \* UPDOWN_TRADING.momentumThreshold
LatencyTimeRemaining == 1800     \* UPDOWN_TRADING.latencyTimeRemaining
GlmConfidenceLow == 350          \* UPDOWN_TRADING.glmConfidenceLow
GlmConfidenceHigh == 450         \* UPDOWN_TRADING.glmConfidenceHigh
CrossPlatformMinSpread == 10     \* UPDOWN_TRADING.crossPlatformMinSpread
CrossPlatformKalshiMin == 65     \* UPDOWN_TRADING.crossPlatformKalshiMin

Book(bid, ask) ==
    [bestBid |-> bid, bestAsk |-> ask, midpoint |-> (bid + ask) \div 2,
     spread |-> ask - bid]

\* fetchOrderBook throws on a response that is not ok; getOrderBook catches
\* it and returns a book with a wide spread
getOrderBook(fetched) ==
    IF ~fetched.ok THEN Book(0, 100) ELSE fetched.book

getBestPrices(fetchedYes, fetchedNo) ==
    LET yesBook == getOrderBook(fetchedYes)
        noBook == getOrderBook(fetchedNo)
    IN  [yesBook |-> yesBook, noBook |-> noBook,
         combinedAsk |-> yesBook.bestAsk + noBook.bestAsk]

absNum(x) == IF x.nan THEN NaN ELSE Num(Abs(x.v))

\* a < b on numbers: false when one of them is NaN
lessThan(a, b) == ~a.nan /\ ~b.nan /\ a.v < b.v

estimatedFinalValue(magnitude, timeRemaining) ==
    IF magnitude.nan THEN NaN
    ELSE LET timeDecay == Max(0, LatencyTimeRemaining - timeRemaining)
             magnitudeScore == Min(50, magnitude.v)
             estimated == EOne \div 2 + 4 * timeDecay * magnitudeScore
             magnitudeBonus == Min(EOne \div 5, magnitude.v * 900)
         IN  Num(Min(882000, estimated + magnitudeBonus))

computeConfidence(magnitude, timeRemaining, entryPrice) ==
    LET over(limit, inc) == IF lessThan(Num(limit), magnitude) THEN inc ELSE 0
        under(limit, inc) == IF timeRemaining < limit THEN inc ELSE 0
        below(limit, inc) == IF entryPrice < limit THEN inc ELSE 0
    IN  Min(950, 400 + over(10, 50) + over(30, 50) + over(50, 50)
                     + over(100, 100) + over(300, 100) + over(500, 100)
                     + under(1800, 30) + under(600, 50) + under(300, 50)
                     + under(120, 50) + under(60, 100)
                     + below(80, 50) + below(60, 50) + below(40, 50))

evaluateLatencyArb(market, prices, binance, timeRemaining) ==
    LET change2m == binance
        magnitude == absNum(change2m)
        priceDirection == IF lessThan(Num(0), change2m) THEN "up" ELSE "down"
        action == IF market.direction = priceDirection THEN "buy-yes" ELSE "buy-no"
        entryPrice == IF action = "buy-yes" THEN prices.yesBook.bestAsk
                                            ELSE prices.noBook.bestAsk
        value == estimatedFinalValue(magnitude, timeRemaining)
        edge == IF value.nan THEN NaN ELSE Num(value.v - entryPrice * PriceUnit)
    IN  IF timeRemaining > LatencyTimeRemaining \/ timeRemaining < 10 THEN None
        ELSE IF lessThan(magnitude, Num(MomentumThreshold)) THEN None
        ELSE IF lessThan(edge, Num(LatencyMinEdge)) THEN None
        ELSE Some([type |-> "latency", market |-> market, edge |-> edge,
                   confidence |-> computeConfidence(magnitude, timeRemaining,
                                                    entryPrice),
                   action |-> action])

evaluateCompleteSet(market, prices) ==
    IF prices.combinedAsk * PriceUnit >= CompleteSetThreshold THEN None
    ELSE Some([type |-> "complete-set", market |-> market,
               edge |-> Num(EOne - prices.combinedAsk * PriceUnit),
               confidence |-> 990, action |-> "buy-both"])

\* what the confirmation request comes to: no API key, a response that is
\* not ok, a text without JSON, a JSON.parse or fetch that throws, or a JSON
\* object with its `probability`
GlmFailures == {"no key", "not ok", "no JSON", "throws"}

GlmFailed(how) == [failure |-> how, probability |-> Undefined]
GlmParsed(probability) == [failure |-> "", probability |-> probability]

\* a confirmation that does not look at the side of the signal
confirmWithGLMAnySide(action, glm) ==
    IF glm.failure \in GlmFailures THEN FALSE
    ELSE LET probability == orHalf(parseFloatOf(glm.probability))
         IN  probability > 55 \/ probability < 45

\* confirmWithGLM: its `confirmed`
confirmWithGLM(action, glm) ==
    IF glm.failure \in GlmFailures THEN FALSE
    ELSE LET probability == orHalf(parseFloatOf(glm.probability))
             glmFavorsYes == probability > 55
             glmFavorsNo == probability < 45
         IN  IF action = "buy-yes" THEN glmFavorsYes ELSE glmFavorsNo

evaluateCrossPlatformArb(market, prices, opp, timeRemaining) ==
    IF opp = None THEN None
    ELSE LET kalshiYes == opp[1].kalshiYes
             spread == opp[1].spread
             effectiveYesAsk == prices.yesBook.bestAsk
             effectiveNoAsk == Min(prices.noBook.bestAsk,
                                   100 - prices.yesBook.bestBid)
             action == IF kalshiYes > CrossPlatformKalshiMin THEN "buy-yes"
                       ELSE "buy-no"
             entryPrice == IF action = "buy-yes" THEN effectiveYesAsk
                                                 ELSE effectiveNoAsk
             edge == IF action = "buy-yes"
                     THEN ((kalshiYes - entryPrice) * PriceUnit) \div 2
                     ELSE (((100 - kalshiYes) - entryPrice) * PriceUnit) \div 2
             confidence ==
                 Min(900, 500 + (IF spread > 15 THEN 50 ELSE 0)
                              + (IF spread > 25 THEN 100 ELSE 0)
                              + (IF spread > 35 THEN 100 ELSE 0)
                              + (IF timeRemaining < 1800 THEN 30 ELSE 0)
                              + (IF timeRemaining < 600 THEN 50 ELSE 0)
                              + (IF entryPrice < 50 THEN 50 ELSE 0))
         IN  IF spread < CrossPlatformMinSpread THEN None
             ELSE IF timeRemaining < 10 THEN None
             ELSE IF prices.yesBook.spread > 10 /\ prices.noBook.spread > 10 THEN None
             ELSE IF ~(kalshiYes > CrossPlatformKalshiMin)
                        /\ ~(kalshiYes < 100 - CrossPlatformKalshiMin) THEN None
             ELSE IF entryPrice > 55 THEN None
             ELSE IF edge < LatencyMinEdge THEN None
             ELSE Some([type |-> "cross-platform", market |-> market,
                        edge |-> Num(edge), confidence |-> confidence,
                        action |-> action])

withPrices(market, prices) ==
    [market EXCEPT !.currentYes = prices.yesBook.midpoint,
                   !.currentNo = prices.noBook.midpoint]

\* evaluateMarket: the signal returned, and whether the GLM was consulted
evaluateMarket(in) ==
    IF in.binance = None THEN [signal |-> None, asked |-> FALSE]
    ELSE LET prices == getBestPrices(in.fetchedYes, in.fetchedNo)
             market == withPrices(in.market, prices)
             completeSetSignal == evaluateCompleteSet(market, prices)
             latencySignal == evaluateLatencyArb(market, prices, in.binance[1],
                                                 in.timeRemaining)
             crossSignal == evaluateCrossPlatformArb(market, prices, in.opp,
                                                     in.timeRemaining)
         IN  IF prices.yesBook.spread > 50 /\ prices.noBook.spread > 50
             THEN [signal |-> None, asked |-> FALSE]
             ELSE IF completeSetSignal # None
             THEN [signal |-> completeSetSignal, asked |-> FALSE]
             ELSE IF latencySignal # None
                        /\ latencySignal[1].confidence >= GlmConfidenceHigh
             THEN [signal |-> latencySignal, asked |-> FALSE]
             ELSE IF latencySignal # None
                        /\ latencySignal[1].confidence >= GlmConfidenceLow
             THEN IF confirmWithGLM(latencySignal[1].action, in.glm)
                  THEN [signal |-> latencySignal, asked |-> TRUE]
                  ELSE [signal |-> crossSignal, asked |-> TRUE]
             ELSE [signal |-> crossSignal, asked |-> FALSE]

\* the change1m of the feed: a number, or NaN after a tick whose price did
\* not parse
FeedChanges == {NaN} \cup {Num(v) : v \in {0 - 60, 0 - 3, 20, 60}}
TimesRemaining == {5, 900, 1800, 2000}
FetchFailed == [ok |-> FALSE, book |-> Book(0, 0)]
Fetched(book) == [ok |-> TRUE, book |-> book]
FetchedBooks ==
    {FetchFailed, Fetched(Book(48, 50)), Fetched(Book(80, 84)), Fetched(Book(10, 90))}
GlmAnswers ==
    {GlmFailed(how) : how \in GlmFailures}
        \cup {GlmParsed(Undefined)}
        \cup {GlmParsed(Number(v)) : v \in {0, 30, 50, 70}}
CrossOpps == {None, Some([kalshiYes |-> 70, spread |-> 20]),
              Some([kalshiYes |-> 30, spread |-> 20])}

EvaluateInputs ==
    [market : {[marketId |-> 1, direction |-> d, currentYes |-> 50,
                currentNo |-> 50] : d \in {"up", "down"}},
     binance : {None} \cup {Some(c) : c \in FeedChanges},
     timeRemaining : TimesRemaining,
     fetchedYes : FetchedBooks,
     fetchedNo : FetchedBooks,
     glm : GlmAnswers,
     opp : CrossOpps]

InitEvaluate ==
    /\ prog = "evaluate"
    /\ atRest
    /\ \E in \in EvaluateInputs : call = [in |-> in, done |-> FALSE, out |-> None]

EvaluateCall ==
    /\ prog = "evaluate"
    /\ ~call.done
    /\ call' = [call EXCEPT !.done = TRUE, !.out = Some(evaluateMarket(call.in))]
    /\ onlyCall

NextEvaluate == EvaluateCall

SpecEvaluate == InitEvaluate /\ [][NextEvaluate]_vars

\* C28: when the fetch of the YES or of the NO order book fails,
\* evaluateMarket returns no signal
C28_NoSignalWithoutBothBooks ==
    (prog = "evaluate" /\ call.done
        /\ (~call.in.fetchedYes.ok \/ ~call.in.fetchedNo.ok))
        => call.out[1].signal = None

returnedLatency ==
    /\ prog = "evaluate"
    /\ call.done
    /\ call.out[1].signal # None
    /\ call.out[1].signal[1].type = "latency"

\* the confirmation came back with a probability on the side of the signal
glmAgrees(glm, action) ==
    /\ glm.failure = ""
    /\ glm.probability.numeric
    /\ IF action = "buy-yes" THEN glm.probability.v > 55
                              ELSE glm.probability.v < 45

\* C29: evaluateMarket returns a latency signal only if its confidence is at
\* least glmConfidenceHigh, or at least glmConfidenceLow and the confirmation
\* puts the probability of YES above 0.55 for buy-yes, below 0.45 for buy-no
C29_LatencyOnlyWhenConfident ==
    returnedLatency =>
        LET signal == call.out[1].signal[1]
        IN  \/ signal.confidence >= GlmConfidenceHigh
            \/ /\ signal.confidence >= GlmConfidenceLow
               /\ glmAgrees(call.in.glm, signal.action)

\* a latency signal below glmConfidenceHigh was returned after a confirmation
C29_Witness ==
    /\ returnedLatency
    /\ call.out[1].asked
    /\ call.out[1].signal[1].confidence < GlmConfidenceHigh

(***************************************************************************)
(* The live-price feed of the up/down bot (binance-feed.ts): handleMatch   *)
(* and the move callbacks.  Times in units of 30 seconds, price changes in *)
(* 1/100000 as in evaluateMarket above.                                    *)
(***************************************************************************)
PriceWindowSeconds == 10         \* UPDOWN_TRADING.priceWindowSeconds = 300
Lookback30s == 1                 \* computeChange(symbol, 30)
Lookback1m == 2                  \* computeChange(symbol, 60)
Lookback5m == 10                 \* computeChange(symbol, 300)
ChangeUnit == 100000
MaxMessages == 3
MaxCallbacks == 2

Products == {"BTC-USD", "DOGE-USD"}

\* PRODUCT_TO_SYMBOL[productId]
symbolOf(productId) == IF productId = "BTC-USD" THEN Some("btcusdt") ELSE None

\* how a registered callback behaves when it is called: it returns, it
\* throws, or it is an async function and returns a promise that is still
\* pending
CallbackKinds == {"returns", "throws", "async"}

PriceStrings == {Str(TRUE, 100), Str(TRUE, 125), Str(FALSE, 0)}

\* new Date(timeStr).getTime(): NaN for a string that is not a date
getTime(timeStr) == parseFloatOf(timeStr)

\* the time of a match is the time of the exchange, the cutoffs are taken
\* from the clock of the process
TimeStrings(clock) == {Str(TRUE, clock), Str(FALSE, 0)}

RECURSIVE trimWindow(_, _)
trimWindow(window, clock) ==
    IF Len(window) > 0
        /\ lessThan(window[1].timestamp, Num(clock - PriceWindowSeconds))
    THEN trimWindow(Tail(window), clock)
    ELSE window

computeChange(window, seconds, clock) ==
    IF Len(window) < 2 THEN Num(0)
    ELSE LET cutoff == clock - seconds
             within == {i \in 1..Len(window) :
                          ~lessThan(window[i].timestamp, Num(cutoff))
                          /\ ~window[i].timestamp.nan}
         IN  IF within = {} THEN Num(0)
             ELSE LET earliest ==
                          window[CHOOSE i \in within : \A j \in within : i <= j]
                      latest == window[Len(window)]
                      diff == latest.price.v - earliest.price.v
                  IN  IF latest.price.nan \/ earliest.price.nan THEN NaN
                      ELSE IF diff < 0
                      THEN Num(0 - (((0 - diff) * ChangeUnit)
                                       \div earliest.price.v))
                      ELSE Num((diff * ChangeUnit) \div earliest.price.v)

getMomentumDirection(change1m) ==
    IF lessThan(Num(MomentumThreshold), change1m) THEN "up"
    ELSE IF lessThan(change1m, Num(0 - MomentumThreshold)) THEN "down"
    ELSE "flat"

\* the loop over moveCallbacks that stops at the first callback that throws
invokeMoveCallbacksNoCatch(callbacks, bp, latest, window) ==
    LET throwers == {i \in 1..Len(callbacks) : callbacks[i] = "throws"}
        upto == IF throwers = {} THEN Len(callbacks)
                ELSE CHOOSE i \in throwers : \A j \in throwers : i <= j
    IN  [i \in 1..upto |->
            [kind |-> callbacks[i], arg |-> bp, latest |-> latest,
             last |-> window[Len(window)]]]

\* for (const cb of moveCallbacks) { try { cb(symbol, bp) } catch ... }:
\* one entry for each call, with the argument of the call and what
\* getPrice and the window hold at the time of the call
invokeMoveCallbacks(callbacks, bp, latest, window) ==
    [i \in 1..Len(callbacks) |->
        [kind |-> callbacks[i], arg |-> bp, latest |-> latest,
         last |-> window[Len(window)]]]

countKind(invoked, kind) ==
    Cardinality({i \in 1..Len(invoked) : invoked[i].kind = kind})

handleMatch(feed, productId, priceStr, timeStr) ==
    IF symbolOf(productId) = None THEN [feed EXCEPT !.invoked = <<>>]
    ELSE
    LET price == parseFloatOf(priceStr)
        timestamp == getTime(timeStr)
        pushed == Append(feed.window, [price |-> price, timestamp |-> timestamp])
        window == trimWindow(pushed, feed.clock)
        change1m == computeChange(window, Lookback1m, feed.clock)
        change5m == computeChange(window, Lookback5m, feed.clock)
        bp == [price |-> price, timestamp |-> timestamp,
               change1m |-> change1m, change5m |-> change5m,
               momentum |-> getMomentumDirection(change1m)]
        latest == Some(bp)
        change30s == computeChange(window, Lookback30s, feed.clock)
        invoked ==
            IF ~lessThan(absNum(change30s), Num(MomentumThreshold))
                /\ ~change30s.nan
            THEN invokeMoveCallbacks(feed.callbacks, bp, latest, window)
            ELSE <<>>
    IN  [feed EXCEPT !.window = window,
                     !.latest = latest,
                     !.invoked = invoked,
                     !.pending = @ + countKind(invoked, "async")]

InitFeed ==
    /\ prog = "feed"
    /\ atRest
    /\ call = [window |-> <<>>, latest |-> None, callbacks |-> <<>>,
               invoked |-> <<>>, pending |-> 0, clock |-> 0,
               msgs |-> 0, msg |-> None, before |-> None]

\* onPriceMove(callback)
OnPriceMove ==
    /\ prog = "feed"
    /\ Len(call.callbacks) < MaxCallbacks
    /\ \E kind \in CallbackKinds :
           call' = [call EXCEPT !.callbacks = Append(@, kind)]
    /\ onlyCall

\* what handleMatch read of a message: nothing but the product when the
\* product is not tracked
heard(productId, priceStr, timeStr) ==
    IF symbolOf(productId) = None
    THEN [productId |-> productId, price |-> NaN, timestamp |-> NaN]
    ELSE [productId |-> productId, price |-> parseFloatOf(priceStr),
          timestamp |-> getTime(timeStr)]

\* the time between two messages: none, 30 seconds, or longer than the
\* price window
Elapsed == {0, Lookback30s, PriceWindowSeconds + 1}

\* ws.on("message"): a match of the exchange
HandleMatch ==
    /\ prog = "feed"
    /\ call.msgs < MaxMessages
    /\ \E elapsed \in Elapsed, productId \in Products,
          priceStr \in PriceStrings :
         \E timeStr \in TimeStrings(call.clock + elapsed) :
           call' = [handleMatch([call EXCEPT !.clock = @ + elapsed],
                                productId, priceStr, timeStr)
                       EXCEPT !.msgs = @ + 1,
                              !.msg = Some(heard(productId, priceStr, timeStr)),
                              !.before = Some([threw |-> countKind(call.invoked, "throws") > 0,
                                               pending |-> call.pending,
                                               callbacks |-> call.callbacks])]
    /\ onlyCall

\* the promise returned by an async callback settles
CallbackSettles ==
    /\ prog = "feed"
    /\ call.pending > 0
    /\ call' = [call EXCEPT !.pending = @ - 1]
    /\ onlyCall

NextFeed == OnPriceMove \/ HandleMatch \/ CallbackSettles

SpecFeed == InitFeed /\ [][NextFeed]_vars

\* the last message was a match of a tracked product
handledTick == prog = "feed" /\ call.msg # None /\ symbolOf(call.msg[1].productId) # None

ReconnectDelay == 3              \* setTimeout(..., 3000)
MaxFailures == 6

\* the mutant: no further attempt after the second failure
scheduleReconnectLimited(feed) ==
    IF ~feed.running \/ feed.failures > 1 THEN feed
    ELSE [feed EXCEPT !.timer = Some(ReconnectDelay), !.waited = 0]

\* if (!running) return; clearTimeout(reconnectTimer);
\* reconnectTimer = setTimeout(connect, 3000)
scheduleReconnect(feed) ==
    IF ~feed.running THEN feed
    ELSE [feed EXCEPT !.timer = Some(ReconnectDelay), !.waited = 0]

\* ws = new WebSocket(url) and the four handlers
connect(feed) == [feed EXCEPT !.sock = "connecting"]

InitConnection ==
    /\ prog = "connection"
    /\ atRest
    /\ call = [running |-> FALSE, sock |-> "none", timer |-> None,
               failures |-> 0, waited |-> 0]

\* startFeed()
StartFeed ==
    /\ prog = "connection"
    /\ ~call.running
    /\ call' = connect([call EXCEPT !.running = TRUE])
    /\ onlyCall

\* stopFeed(): the timer is cleared, the listeners are removed and the
\* socket is closed and forgotten
StopFeed ==
    /\ prog = "connection"
    /\ call.running
    /\ call' = [call EXCEPT !.running = FALSE, !.timer = None, !.sock = "none"]
    /\ onlyCall

\* ws.on("open")
SocketOpens ==
    /\ prog = "connection"
    /\ call.sock = "connecting"
    /\ call' = [call EXCEPT !.sock = "open"]
    /\ onlyCall

\* ws.on("error"): ws?.close()
SocketError ==
    /\ prog = "connection"
    /\ call.sock \in {"connecting", "open"}
    /\ call.failures < MaxFailures
    /\ call' = [call EXCEPT !.sock = "closing", !.failures = @ + 1]
    /\ onlyCall

\* ws.on("close"), after an error or when the remote end closes
SocketCloses ==
    /\ prog = "connection"
    /\ \/ call.sock = "closing"
       \/ call.sock \in {"connecting", "open"} /\ call.failures < MaxFailures
    /\ call' = scheduleReconnect(
                  [call EXCEPT !.sock = "closed",
                               !.failures = IF call.sock = "closing" THEN @
                                            ELSE @ + 1])
    /\ onlyCall

\* one second passes while the timer is pending
ReconnectWaits ==
    /\ prog = "connection"
    /\ call.timer # None
    /\ call.timer[1] > 0
    /\ call' = [call EXCEPT !.timer = Some(@[1] - 1), !.waited = @ + 1]
    /\ onlyCall

\* the callback of the timer: connect()
ReconnectFires ==
    /\ prog = "connection"
    /\ call.timer = Some(0)
    /\ call' = connect([call EXCEPT !.timer = None])
    /\ onlyCall

NextConnection ==
    \/ StartFeed
    \/ StopFeed
    \/ SocketOpens
    \/ SocketError
    \/ SocketCloses
    \/ ReconnectWaits
    \/ ReconnectFires

SpecConnection == InitConnection /\ [][NextConnection]_vars

\* timers fire and time passes; a socket on which an error was emitted or
\* close() was called emits its close event
SpecConnectionLive ==
    /\ InitConnection
    /\ [][NextConnection]_vars
    /\ WF_vars(SocketCloses)
    /\ WF_vars(ReconnectWaits)
    /\ WF_vars(ReconnectFires)

socketLost ==
    prog = "connection" /\ call.running /\ call.sock \in {"closing", "closed"}

\* C31: while the feed is running, a socket that had an error or was closed
\* is followed by a new connection attempt made ReconnectDelay seconds after
\* the close, whatever the number of earlier failures (or the feed is
\* stopped first)
C31_LostSocketReconnects ==
    socketLost ~>
        (\/ ~call.running
         \/ call.sock = "connecting" /\ call.waited = ReconnectDelay)

\* the attempt that follows the last failure the model allows
C31_Witness ==
    /\ prog = "connection"
    /\ call.running
    /\ call.failures = MaxFailures
    /\ call.sock = "connecting"
    /\ call.waited = ReconnectDelay

(***************************************************************************)
(* The processes of the up/down bot (kalshi-monitor.ts:311-411) and of the *)
(* Kalshi bot (part_007:83-178): start-up, main loop, timers of the        *)
(* scanners, the feed and the handler of SIGINT and SIGTERM.  The paper    *)
(* state is the number of changes made to it; the file holds the number    *)
(* that was saved last.                                                    *)
(***************************************************************************)
MaxBotChanges == 2
MaxPolls == 2
MaxBotFailures == 2

BotKinds == {"updown", "kalshi"}

\* the events of the socket and of the reconnect timer, as in connect and
\* scheduleReconnect
feedEvents(feed) ==
    (IF feed.sock = "connecting" THEN {[feed EXCEPT !.sock = "open"]} ELSE {})
    \cup (IF feed.sock \in {"connecting", "open"}
             /\ feed.failures < MaxBotFailures
          THEN {[feed EXCEPT !.sock = "closing", !.failures = @ + 1],
                scheduleReconnect([feed EXCEPT !.sock = "closed",
                                               !.failures = @ + 1])}
          ELSE {})
    \cup (IF feed.sock = "closing"
          THEN {scheduleReconnect([feed EXCEPT !.sock = "closed"])} ELSE {})
    \cup (IF feed.timer # None /\ feed.timer # Some(0)
          THEN {[feed EXCEPT !.timer = Some(@[1] - 1), !.waited = @ + 1]}
          ELSE {})
    \cup (IF feed.timer = Some(0)
          THEN {connect([feed EXCEPT !.timer = None])} ELSE {})

\* stopFeed(): running = false, clearTimeout, removeAllListeners, close
stopFeed(bot) ==
    [bot EXCEPT !.feed = [@ EXCEPT !.running = FALSE, !.timer = None,
                                   !.sock = "none"],
                !.steps = Append(@, "stopFeed")]

\* stopScanner(): clearInterval
stopScanner(bot) ==
    [bot EXCEPT !.scanTimer = FALSE, !.steps = Append(@, "stopScanner")]

\* stopKalshiMonitor(): clearInterval
stopKalshiMonitor(bot) ==
    [bot EXCEPT !.monitorTimer = FALSE,
                !.steps = Append(@, "stopKalshiMonitor")]

\* saveState(): writeFileSync of the state in memory
botSaveState(bot) ==
    [bot EXCEPT !.file = bot.mem, !.steps = Append(@, "saveState")]

\* process.exit(0)
exit(bot) == [bot EXCEPT !.exited = TRUE, !.steps = Append(@, "exit")]

\* the mutant: the handler that exits without stopping and saving
shutdownExitOnly(bot) == exit([bot EXCEPT !.running = FALSE])

\* shutdown() of the two bots
shutdown(bot) ==
    LET stopped == stopScanner(stopFeed([bot EXCEPT !.running = FALSE]))
    IN  IF bot.kind = "updown"
        THEN exit(botSaveState(stopKalshiMonitor(stopped)))
        ELSE exit(botSaveState(stopped))

\* run() up to its first await: loadState, startFeed and, in the up/down
\* bot, startScanner with its first poll
InitBot ==
    /\ prog = "bot"
    /\ atRest
    /\ \E kind \in BotKinds, saved \in 0..1 :
          call = [kind |-> kind,
                  feed |-> connect([running |-> TRUE, sock |-> "none",
                                    timer |-> None, failures |-> 0,
                                    waited |-> 0]),
                  scanTimer |-> kind = "updown",
                  monitorTimer |-> FALSE,
                  running |-> FALSE,
                  phase |-> "waitData",
                  mem |-> saved, file |-> saved,
                  polls |-> IF kind = "updown" THEN 1 ELSE 0,
                  exited |-> FALSE, steps |-> <<>>, at |-> None]

alive == prog = "bot" /\ ~call.exited

BotFeedEvent ==
    /\ alive
    /\ \E feed \in feedEvents(call.feed) : call' = [call EXCEPT !.feed = feed]
    /\ onlyCall

\* waitForPriceData resolves
BotDataReady ==
    /\ alive
    /\ call.phase = "waitData"
    /\ call' = IF call.kind = "updown"
               THEN [call EXCEPT !.monitorTimer = TRUE, !.polls = @ + 1,
                                 !.running = TRUE, !.phase = "evaluating"]
               ELSE [call EXCEPT !.phase = "initialScan", !.polls = @ + 1]
    /\ onlyCall

\* the first scan of the Kalshi scanner returns: setInterval, running = true
BotScanned ==
    /\ alive
    /\ call.phase = "initialScan"
    /\ call' = [call EXCEPT !.scanTimer = TRUE, !.running = TRUE,
                            !.phase = "resolving"]
    /\ onlyCall

\* await resolveExpired() of the Kalshi loop returns
BotResolved ==
    /\ alive
    /\ call.phase = "resolving"
    /\ \E changed \in {0, 1} :
          /\ call.mem + changed <= MaxBotChanges
          /\ call' = [call EXCEPT !.mem = @ + changed, !.phase = "evaluating"]
    /\ onlyCall

\* await evaluateAllMarkets() returns; the trades are executed and the
\* state is saved
BotEvaluated ==
    /\ alive
    /\ call.phase = "evaluating"
    /\ \E changed \in {0, 1} :
          /\ call.mem + changed <= MaxBotChanges
          /\ call' = [call EXCEPT !.mem = @ + changed,
                                  !.file = call.mem + changed,
                                  !.phase = "sleeping"]
    /\ onlyCall

\* sleep() returns and the loop tests running
BotWakes ==
    /\ alive
    /\ call.phase = "sleeping"
    /\ call' = [call EXCEPT !.phase =
                   IF ~call.running THEN "returned"
                   ELSE IF call.kind = "updown" THEN "evaluating"
                   ELSE "resolving"]
    /\ onlyCall

\* a callback of the up/down bot (price move, new market) executes a trade
BotCallbackTrade ==
    /\ alive
    /\ call.kind = "updown"
    /\ call.running
    /\ call.mem < MaxBotChanges
    /\ call' = [call EXCEPT !.mem = @ + 1]
    /\ onlyCall

\* an interval timer of a scanner or of the monitor fires
BotPoll ==
    /\ alive
    /\ call.scanTimer \/ call.monitorTimer
    /\ call.polls < MaxPolls
    /\ call' = [call EXCEPT !.polls = @ + 1]
    /\ onlyCall

\* SIGINT or SIGTERM
BotSignal ==
    /\ alive
    /\ call' = shutdown([call EXCEPT !.at = Some([polls |-> call.polls,
                                                  mem |-> call.mem,
                                                  file |-> call.file,
                                                  timer |-> call.feed.timer,
                                                  scanTimer |-> call.scanTimer])])
    /\ onlyCall

NextBot ==
    \/ BotFeedEvent
    \/ BotDataReady
    \/ BotScanned
    \/ BotResolved
    \/ BotEvaluated
    \/ BotWakes
    \/ BotCallbackTrade
    \/ BotPoll
    \/ BotSignal

SpecBot == InitBot /\ [][NextBot]_vars

indexOf(steps, step) ==
    IF \E i \in 1..Len(steps) : steps[i] = step
    THEN CHOOSE i \in 1..Len(steps) : steps[i] = step
    ELSE 0

\* C32: a process that exited on a signal stopped the feed and the
\* scanners, then saved the state it held when the signal came, then
\* exited; no timer of a reconnection or of a poll is left and no poll was
\* started after the signal
C32_ShutdownStopsThenSaves ==
    (prog = "bot" /\ call.exited) =>
        /\ 0 < indexOf(call.steps, "stopFeed")
        /\ indexOf(call.steps, "stopFeed") < indexOf(call.steps, "stopScanner")
        /\ indexOf(call.steps, "stopScanner") < indexOf(call.steps, "saveState")
        /\ indexOf(call.steps, "saveState") < indexOf(call.steps, "exit")
        /\ call.file = call.at[1].mem
        /\ call.polls = call.at[1].polls
        /\ ~call.running /\ ~call.feed.running
        /\ call.feed.timer = None /\ call.feed.sock = "none"
        /\ ~call.scanTimer /\ ~call.monitorTimer

\* a signal that came while a reconnection was pending, a scanner timer
\* was set and the state in memory was not the saved one
C32_Witness ==
    /\ prog = "bot"
    /\ call.exited
    /\ call.at[1].timer # None
    /\ call.at[1].scanTimer
    /\ call.at[1].file # call.at[1].mem
    /\ call.file = call.at[1].mem

(***************************************************************************)
(* The cooldown of the Kalshi evaluator (part_008:284-294, 367-373).       *)
(* Times in minutes.                                                       *)
(***************************************************************************)
EvalCooldown == 5                \* EVAL_COOLDOWN_MS = 5 * 60 * 1000
MaxCooldownClock == 12
MaxCallsPerMinute == 2

\* the mutant: the cleanup that forgets every entry
cleanupCooldownsAll(recentlyEvaluated, clock) ==
    [ticker \in DOMAIN recentlyEvaluated |-> None]

\* the callback of setInterval: entries older than the cooldown are deleted
cleanupCooldowns(recentlyEvaluated, clock) ==
    LET cutoff == clock - EvalCooldown
    IN  [ticker \in DOMAIN recentlyEvaluated |->
            IF recentlyEvaluated[ticker] # None
                /\ recentlyEvaluated[ticker][1] < cutoff
            THEN None
            ELSE recentlyEvaluated[ticker]]

\* if (lastEval && Date.now() - lastEval < EVAL_COOLDOWN_MS) return null
inCooldown(recentlyEvaluated, ticker, clock) ==
    LET lastEval == recentlyEvaluated[ticker]
    IN  /\ lastEval # None
        /\ lastEval[1] # 0
        /\ clock - lastEval[1] < EvalCooldown

InitCooldown ==
    /\ prog = "cooldown"
    /\ atRest
    /\ call = [clock |-> 1,
               recentlyEvaluated |-> [ticker \in Tickers |-> None],
               passed |-> [ticker \in Tickers |-> <<>>],
               calls |-> 0, cleaned |-> FALSE]

\* evaluateMarket(market) up to the strategies; passed keeps the times of
\* the last two calls that got past the check
CooldownCheck ==
    /\ prog = "cooldown"
    /\ \E ticker \in Tickers :
          IF inCooldown(call.recentlyEvaluated, ticker, call.clock)
          THEN call' = [call EXCEPT !.calls = @ + 1]
          ELSE call' = [call EXCEPT
                          !.calls = @ + 1,
                          !.recentlyEvaluated[ticker] = Some(call.clock),
                          !.passed[ticker] =
                              IF @ = <<>> THEN <<call.clock>>
                              ELSE <<@[Len(@)], call.clock>>]
    /\ call.calls < MaxCallsPerMinute
    /\ onlyCall

CooldownCleanup ==
    /\ prog = "cooldown"
    /\ ~call.cleaned
    /\ call' = [call EXCEPT
                   !.recentlyEvaluated = cleanupCooldowns(@, call.clock),
                   !.cleaned = TRUE]
    /\ onlyCall

\* a minute passes; the counters of the calls made within the minute start
\* again
CooldownClock ==
    /\ prog = "cooldown"
    /\ call.clock < MaxCooldownClock
    /\ call' = [call EXCEPT !.clock = @ + 1, !.calls = 0, !.cleaned = FALSE]
    /\ onlyCall

NextCooldown == CooldownCheck \/ CooldownCleanup \/ CooldownClock

SpecCooldown == InitCooldown /\ [][NextCooldown]_vars

\* C33: for every ticker the last two evaluations that got past the
\* cooldown check are at least EvalCooldown apart
C33_PassesCooldownApart ==
    prog = "cooldown" =>
        \A ticker \in Tickers :
            Len(call.passed[ticker]) = 2 =>
                call.passed[ticker][2] - call.passed[ticker][1] >= EvalCooldown

\* a ticker that passed twice, exactly one cooldown apart, while the entry
\* of the other ticker was deleted by the cleanup
C33_Witness ==
    /\ prog = "cooldown"
    /\ Len(call.passed["KXA"]) = 2
    /\ call.passed["KXA"][2] - call.passed["KXA"][1] = EvalCooldown
    /\ call.recentlyEvaluated["KXB"] = None
    /\ Len(call.passed["KXB"]) = 1

\* the evaluation of market m begun by the new-market callback and the one
\* begun by evaluateAllMarkets are both known, with their starting times
bothStarted(m) ==
    /\ call.task["new"].awaiting = Some(m)
    /\ call.newStarted # None
    /\ call.evaluated[m] # None

\* C34: in the up/down bot two evaluations of a market, whichever trigger
\* began them, begin at least ForgetDelay (15 seconds) apart
C34_EvaluationsForgetDelayApart ==
    prog = "updown" =>
        \A m \in UpDownIds :
            bothStarted(m) =>
                Abs(call.evaluated[m][1] - call.newStarted[1]) >= ForgetDelay

(***************************************************************************)
(* flagExpiredUnresolved (part_011:72-92) followed by checkResolutions.    *)
(***************************************************************************)
MaxFlagTrades == 2
MaxFlagClock == 3

\* trade.endDate is an ISO string; one that is not a date gives NaN
EndDates == {Str(TRUE, 1), Str(TRUE, 2), Str(FALSE, 0)}

FlagTrades ==
    {[marketId |-> m, model |-> "ensemble", side |-> "YES", fairYes |-> 60,
      hypotheticalSize |-> 100, hypotheticalShares |-> 200, entryPrice |-> 50,
      resolved |-> r,
      resolution |-> IF r THEN "NO" ELSE "null",
      resolvedAt |-> IF r THEN Some(1) ELSE None,
      pnl |-> IF r THEN Some(0 - 100) ELSE None,
      endDate |-> e] : m \in Markets, r \in BOOLEAN, e \in EndDates}

\* the mutant: the loop without `if (trade.resolved) continue`
RECURSIVE flagExpiredAlsoResolved(_, _)
flagExpiredAlsoResolved(trades, clock) ==
    IF trades = <<>> THEN <<>>
    ELSE LET endDate == getTime(Head(trades).endDate)
             rest == flagExpiredAlsoResolved(Tail(trades), clock)
         IN  IF lessThan(endDate, Num(clock)) THEN <<Head(trades)>> \o rest
             ELSE rest

\* the loop of flagExpiredUnresolved: the value returned
RECURSIVE flagExpiredUnresolved(_, _)
flagExpiredUnresolved(trades, clock) ==
    IF trades = <<>> THEN <<>>
    ELSE LET endDate == getTime(Head(trades).endDate)
             rest == flagExpiredUnresolved(Tail(trades), clock)
         IN  IF Head(trades).resolved THEN rest
             ELSE IF lessThan(endDate, Num(clock)) THEN <<Head(trades)>> \o rest
             ELSE rest

InitFlag ==
    /\ prog = "flag"
    /\ atRest
    /\ \E n \in 0..MaxFlagTrades, clock \in 1..MaxFlagClock :
          \E trades \in [1..n -> FlagTrades] :
             call = [trades |-> trades, before |-> trades, clock |-> clock,
                     flagged |-> FALSE, stale |-> <<>>, checked |-> FALSE,
                     statuses |-> <<>>]

\* flagExpiredUnresolved(trades): the trades are only read
FlagCall ==
    /\ prog = "flag"
    /\ ~call.flagged
    /\ call' = [call EXCEPT !.flagged = TRUE,
                            !.stale = flagExpiredUnresolved(call.trades, call.clock)]
    /\ onlyCall

\* a later checkResolutions(trades) with the answer of the Gamma API
FlagCheckCall ==
    /\ prog = "flag"
    /\ call.flagged
    /\ ~call.checked
    /\ \E statuses \in [Markets -> SettledStatuses \cup {OpenStatus}] :
          call' = [call EXCEPT
                     !.checked = TRUE,
                     !.statuses = statuses,
                     !.trades = checkResolutions(call.trades, statuses, call.clock)]
    /\ onlyCall

NextFlag == FlagCall \/ FlagCheckCall

SpecFlag == InitFlag /\ [][NextFlag]_vars

\* an unresolved trade whose end date is a date before the clock
expiredUnresolved(trade, clock) ==
    /\ ~trade.resolved
    /\ trade.endDate.numeric
    /\ trade.endDate.v < clock

\* C35: flagExpiredUnresolved returns the unresolved trades whose end date is
\* in the past, in the order of the list, and leaves every trade as it was;
\* a later checkResolutions resolves a flagged trade whose market has settled
C35_FlagReturnsExpiredOnly ==
    (prog = "flag" /\ call.flagged) =>
        /\ call.stale =
              SelectSeq(call.before,
                        LAMBDA trade : expiredUnresolved(trade, call.clock))
        /\ ~call.checked => call.trades = call.before
        /\ call.checked =>
              \A i \in DOMAIN call.trades :
                  (expiredUnresolved(call.before[i], call.clock)
                      /\ call.statuses[call.before[i].marketId] # OpenStatus)
                      => call.trades[i].resolved

\* a list with a flagged trade, a resolved trade past its end date and a
\* trade whose end date is no date; the flagged trade was resolved afterwards
C35_Witness ==
    /\ prog = "flag"
    /\ call.checked
    /\ Len(call.before) = 2
    /\ Len(call.stale) = 1
    /\ call.before[1].resolved
    /\ call.before[1].endDate = Str(TRUE, 1)
    /\ call.clock = 3
    /\ call.trades[2].resolved
    /\ ~call.before[2].resolved

\* the capped size of sizeOne, as a real number, is below TRADING.minTradeSize:
\* one of balance x Kelly, balance x bucket percentage, min($75, balance x
\* maxTradeRisk) is
cappedBelowMinimum(signal, balance) ==
    \/ balance * fullKellyNum(signal) * KellyFractionNum
          < MinTradeSize * fullKellyDen(signal) * KellyFractionDen
    \/ balance * bucketPct(signal.marketPrice) < MinTradeSize * 100
    \/ balance * MaxTradeRiskNum < MinTradeSize * MaxTradeRiskDen
    \/ DollarCap < MinTradeSize

noPositionExpected(signal, balance) ==
    \/ signal.marketPrice < MinPriceThreshold
    \/ winProb(signal) <= signal.marketPrice
    \/ cappedBelowMinimum(signal, balance)

\* C36: sizeOne returns no position exactly when the price is below the
\* longshot floor, full Kelly is not positive or the capped size is below
\* the minimum trade size; otherwise it returns the largest whole number of
\* cents within all the caps; balance $10,000, YES at 0.40 with fairYes 0.60
\* gives $75
C36_SizeOneDropsOrFloors ==
    (prog = "sizer" /\ sz.oneDone) =>
        LET signal == sz.signals[1]
        IN  /\ sz.one = None <=> noPositionExpected(signal, sz.balance)
            /\ sz.one # None =>
                  /\ withinCaps(sz.one[1], signal, sz.balance)
                  /\ ~withinCaps(sz.one[1] + 1, signal, sz.balance)
            /\ (sz.balance = 1000000 /\ signal.side = "YES"
                   /\ signal.marketPrice = 40 /\ signal.fairYes = 60)
                  => sz.one = Some(7500)

\* the example of the $75 position
C36_Witness ==
    /\ prog = "sizer"
    /\ sz.oneDone
    /\ sz.balance = 1000000
    /\ sz.signals[1].side = "YES"
    /\ sz.signals[1].marketPrice = 40
    /\ sz.signals[1].fairYes = 60
    /\ sz.one = Some(7500)

(***************************************************************************)
(* A complete-set trade of the up/down bot from the order books to its     *)
(* resolution: evaluateMarket on the fetched books, executePaperTrade on   *)
(* the signal (kalshi-monitor.ts, the main loop), resolveExpired after the *)
(* window. Money in cents, shares in 1/100, prices in percent.             *)
(***************************************************************************)
CompleteSetBooks ==
    {Book(48, 48), Book(50, 50), Book(30, 48), Book(32, 50), Book(50, 52)}

CompleteSetBankrolls == {UpDownInitialBankroll, 500000, 900}

completeSetMarket ==
    [marketId |-> 1, direction |-> "up", strikePrice |-> 100, windowEnd |-> 1,
     currentYes |-> 50, currentNo |-> 50]

completeSetInput(yesBook, noBook) ==
    [market |-> completeSetMarket, binance |-> Some(Num(0)),
     timeRemaining |-> 900, fetchedYes |-> Fetched(yesBook),
     fetchedNo |-> Fetched(noBook), glm |-> GlmFailed("no key"), opp |-> None]

InitCompleteSet ==
    /\ prog = "completeset"
    /\ atRest
    /\ \E yesBook \in CompleteSetBooks, noBook \in CompleteSetBooks,
          bankroll \in CompleteSetBankrolls :
          call = [yesBook |-> yesBook, noBook |-> noBook, stage |-> "listed",
                  signal |-> None, expiry |-> None,
                  state |-> [updownDefaultState EXCEPT !.bankroll = bankroll]]

\* one market of the main loop: evaluateMarket, then executePaperTrade on the
\* signal it returned
CompleteSetEvaluated ==
    /\ prog = "completeset"
    /\ call.stage = "listed"
    /\ LET signal == evaluateMarket(completeSetInput(call.yesBook, call.noBook)).signal
       IN  call' = [call EXCEPT
                      !.stage = "evaluated",
                      !.signal = signal,
                      !.state = IF signal = None THEN @
                                ELSE updownExecutePaperTrade(@, signal[1],
                                                             Some(100))]
    /\ onlyCall

\* resolveExpired after the end of the window, at either price of the feed
CompleteSetResolved ==
    /\ prog = "completeset"
    /\ call.stage = "evaluated"
    /\ \E price \in FeedPrices :
          call' = [call EXCEPT
                     !.stage = "resolved",
                     !.expiry = Some(price),
                     !.state = updownResolveExpired(@, Some(price),
                                                    completeSetMarket.windowEnd)]
    /\ onlyCall

NextCompleteSet == CompleteSetEvaluated \/ CompleteSetResolved

SpecCompleteSet == InitCompleteSet /\ [][NextCompleteSet]_vars

\* the BOTH trade of a complete-set signal has been resolved
completeSetResolved ==
    /\ prog = "completeset"
    /\ call.stage = "resolved"
    /\ call.signal # None
    /\ call.signal[1].type = "complete-set"
    /\ Len(call.state.trades) = 1
    /\ call.state.trades[1].resolved

\* the edge of a complete-set signal in percent (a whole number of PriceUnit,
\* as the asks are whole percents)
edgePercent(signal) == signal.edge.v \div PriceUnit

\* C37: the pnl of the resolved BOTH trade of a complete-set signal is its
\* shares times the edge of the signal, 1 - (yesAsk + noAsk), to the cent
C37_BothPnlIsSharesTimesEdge ==
    completeSetResolved =>
        LET trade == call.state.trades[1]
            pnl == trade.pnl[1] * 100
            claimed == trade.shares * edgePercent(call.signal[1])
        IN  /\ pnl - claimed < 100
            /\ claimed - pnl < 100

(***************************************************************************)
(* evaluateSignal of analyzer.ts on one market and one estimate, under the *)
(* shrinkage factors 1/2 and 1. Units of 1/1200 as above; the inputs are   *)
(* even, so that half a difference is a whole number.                      *)
(***************************************************************************)
Shrinkages == {[num |-> ShrinkageNum, den |-> ShrinkageDen], [num |-> 1, den |-> 1]}

\* prices of YES and of NO: they need not sum to 1
SignalYesPrices == {240, 360, 600, 840}
SignalNoPrices == {360, 540, 672, 840}
SignalFairValues == {120, 372, 504, 660, 1080}
SignalConfidences == {600, 720}

InitSignal ==
    /\ prog = "signal"
    /\ atRest
    /\ \E shrinkage \in Shrinkages, yes \in SignalYesPrices, no \in SignalNoPrices,
          fairYes \in SignalFairValues, confidence \in SignalConfidences,
          multiplier \in AnalyzerMultipliers :
          call = [shrinkage |-> shrinkage, market |-> AMarket(1, yes, no),
                  estimate |-> [fairYes |-> fairYes, confidence |-> confidence],
                  multiplier |-> multiplier, done |-> FALSE, out |-> None]

SignalCall ==
    /\ prog = "signal"
    /\ ~call.done
    /\ call' = [call EXCEPT
                  !.done = TRUE,
                  !.out = evaluateSignalAt(call.shrinkage, call.market,
                                           call.estimate, call.multiplier)]
    /\ onlyCall

NextSignal == SignalCall

SpecSignal == InitSignal /\ [][NextSignal]_vars

signalReturned == prog = "signal" /\ call.done /\ call.out # None

\* the fair value after shrinkage, f
shrunkFair(c) ==
    c.market.yes + (c.shrinkage.num * (c.estimate.fairYes - c.market.yes))
                       \div c.shrinkage.den

\* the side of the claim: the cheap side when both edges are positive and the
\* other side is dear, the side of the larger edge otherwise
claimedSide(priceYes, priceNo, yesEdge, noEdge) ==
    IF yesEdge > 0 /\ noEdge > 0 /\ priceYes < 540 /\ priceNo > 660 THEN "YES"
    ELSE IF yesEdge > 0 /\ noEdge > 0 /\ priceNo < 540 /\ priceYes > 660 THEN "NO"
    ELSE IF yesEdge > noEdge THEN "YES" ELSE "NO"

scenarioA ==
    /\ prog = "signal"
    /\ call.market.yes = 360
    /\ call.estimate = [fairYes |-> 660, confidence |-> 720]
    /\ call.shrinkage = [num |-> 1, den |-> 1]
    /\ call.multiplier = 100

\* C38: a signal of evaluateSignal is on the side with the larger edge
\* (yesEdge = f - priceYes, noEdge = (1 - f) - priceNo), except that with both
\* edges positive it is on the side priced below 0.45 when the other side is
\* priced above 0.55; its edge is the edge of that side; with priceYes 0.30,
\* fair value 0.55 and shrinkage 1 the signal is YES with edge 0.25
C38_SideIsLargerEdgeOrCheapSide ==
    /\ signalReturned =>
          LET yesEdge == shrunkFair(call) - call.market.yes
              noEdge == (AOne - shrunkFair(call)) - call.market.no
              side == claimedSide(call.market.yes, call.market.no, yesEdge, noEdge)
          IN  /\ call.out[1].side = side
              /\ call.out[1].edge = IF side = "YES" THEN yesEdge ELSE noEdge
    /\ (scenarioA /\ call.done) =>
          /\ call.out # None
          /\ call.out[1].side = "YES"
          /\ call.out[1].edge = 300
          /\ call.out[1].fairYes = 660

\* scenario A has been evaluated on a market with priceNo 0.70
C38_Witness ==
    /\ scenarioA
    /\ call.market.no = 840
    /\ call.done
    /\ call.out # None
    /\ call.out[1].side = "YES"
    /\ call.out[1].edge = 300

(***************************************************************************)
(* The two paper engines under any sequence of executePaperTrade and       *)
(* resolveExpired calls, each from its default state.                      *)
(***************************************************************************)
MaxAccountsTrades == 3         \* trades opened in one run
MaxAccountsClock == 3          \* the clock stops here

Engines == {"kalshi", "updown"}

InitAccounts ==
    /\ prog = "accounts"
    /\ atRest
    /\ \E engine \in Engines :
          call = [engine |-> engine, clock |-> 0,
                  state |-> IF engine = "kalshi" THEN defaultState
                            ELSE updownDefaultState]

\* executePaperTrade of the Kalshi engine on a signal of the scan
AccountsKalshiTrade ==
    /\ prog = "accounts"
    /\ call.engine = "kalshi"
    /\ Len(call.state.trades) < MaxAccountsTrades
    /\ \E k \in DOMAIN KalshiMenu, ahead \in 0..1 :
          LET signal == withCloseTime(<<KalshiMenu[k]>>, call.clock + ahead)[1]
          IN  call' = [call EXCEPT
                         !.state = executePaperTrade(@, signal,
                                                     Len(@.trades) + 1).state]
    /\ onlyCall

\* resolveExpired of the Kalshi engine, whatever fetchMarket answers
AccountsKalshiResolve ==
    /\ prog = "accounts"
    /\ call.engine = "kalshi"
    /\ \E fresh \in [Tickers -> FetchResults] :
          call' = [call EXCEPT
                     !.state = resolveExpired(@, Len(@.openPositions), fresh,
                                              call.clock)]
    /\ onlyCall

\* executePaperTrade of the up/down engine on a signal for a listed market
AccountsUpDownTrade ==
    /\ prog = "accounts"
    /\ call.engine = "updown"
    /\ Len(call.state.trades) < MaxAccountsTrades
    /\ \E m \in UpDownIds, latest \in FeedPrices :
          \E signal \in signalsFor(UpDownMarkets[m]) :
             call' = [call EXCEPT
                        !.state = updownExecutePaperTrade(@, signal, Some(latest))]
    /\ onlyCall

\* resolveExpired of the up/down engine, with or without a price of the feed
AccountsUpDownResolve ==
    /\ prog = "accounts"
    /\ call.engine = "updown"
    /\ \E latest \in {None} \cup {Some(p) : p \in FeedPrices} :
          call' = [call EXCEPT
                     !.state = updownResolveExpired(@, latest, call.clock)]
    /\ onlyCall

AccountsClock ==
    /\ prog = "accounts"
    /\ call.clock < MaxAccountsClock
    /\ call' = [call EXCEPT !.clock = @ + 1]
    /\ onlyCall

NextAccounts ==
    \/ AccountsKalshiTrade
    \/ AccountsKalshiResolve
    \/ AccountsUpDownTrade
    \/ AccountsUpDownResolve
    \/ AccountsClock

SpecAccounts == InitAccounts /\ [][NextAccounts]_vars

RECURSIVE sumOfSizes(_)
sumOfSizes(positions) ==
    IF positions = <<>> THEN 0
    ELSE Head(positions).size + sumOfSizes(Tail(positions))

RECURSIVE sumOfResolvedPnl(_)
sumOfResolvedPnl(trades) ==
    IF trades = <<>> THEN 0
    ELSE (IF Head(trades).resolved THEN Head(trades).pnl[1] ELSE 0)
             + sumOfResolvedPnl(Tail(trades))

unresolvedOf(trades) == SelectSeq(trades, LAMBDA t : ~t.resolved)

engineInitialBankroll(engine) ==
    IF engine = "kalshi" THEN KalshiInitialBankroll ELSE UpDownInitialBankroll

\* C39: in either engine, after any sequence of executePaperTrade and
\* resolveExpired calls, the bankroll is the initial bankroll less the sizes
\* of the open positions plus the pnl of the resolved trades, and
\* openPositions holds exactly the unresolved trades of the trade list
C39_BankrollAccountsForTrades ==
    prog = "accounts" =>
        /\ call.state.bankroll
              = engineInitialBankroll(call.engine)
                    - sumOfSizes(call.state.openPositions)
                    + sumOfResolvedPnl(call.state.trades)
        /\ call.state.openPositions = unresolvedOf(call.state.trades)

\* the up/down engine holds a trade resolved at a loss, one resolved at a
\* profit and an open position
C39_Witness ==
    /\ prog = "accounts"
    /\ call.engine = "updown"
    /\ Len(call.state.openPositions) = 1
    /\ \E i, j \in DOMAIN call.state.trades :
          /\ call.state.trades[i].resolved
          /\ call.state.trades[i].pnl[1] < 0
          /\ call.state.trades[j].resolved
          /\ call.state.trades[j].pnl[1] > 0

(***************************************************************************)
(* rateLimit and kalshiFetch of kalshi/api.ts with two callers: the        *)
(* periodic scan of the scanner and the resolution fetches of the main     *)
(* loop. Time in units of 100 ms. A caller is idle, waiting in the timer   *)
(* of rateLimit, or awaiting the response of its request.                  *)
(***************************************************************************)
KalshiRateLimitMs == 5         \* KALSHI_RATE_LIMIT_MS = 500
MaxRateClock == 16             \* the clock stops here

Callers == {"scan", "loop"}

InitRateLimit ==
    /\ prog = "ratelimit"
    /\ atRest
    /\ call = [clock |-> KalshiRateLimitMs,
               lastCallTime |-> 0,
               pc |-> [c \in Callers |-> "idle"],
               wakeAt |-> [c \in Callers |-> 0],
               lastRequest |-> None,
               minGap |-> None]

\* the request leaves: lastCallTime = Date.now(), then fetch(url)
issue(c, caller) ==
    [c EXCEPT !.lastCallTime = c.clock,
              !.pc[caller] = "fetching",
              !.lastRequest = Some(c.clock),
              !.minGap = IF c.lastRequest = None THEN @
                         ELSE IF @ = None THEN Some(c.clock - c.lastRequest[1])
                         ELSE Some(Min(@[1], c.clock - c.lastRequest[1]))]

\* rateLimit up to its await, or to its end when it does not wait
rateLimit(c, caller) ==
    LET elapsed == c.clock - c.lastCallTime
    IN  IF elapsed < KalshiRateLimitMs
        THEN [c EXCEPT !.pc[caller] = "waiting",
                       !.wakeAt[caller] = c.clock + (KalshiRateLimitMs - elapsed)]
        ELSE issue(c, caller)

\* a caller calls kalshiFetch: a page of fetchOpenMarkets in scan, or
\* fetchMarket in resolveExpired
KalshiFetch ==
    /\ prog = "ratelimit"
    /\ \E caller \in Callers :
          /\ call.pc[caller] = "idle"
          /\ call' = rateLimit(call, caller)
    /\ onlyCall

\* the timer of rateLimit fires and the caller goes on
RateLimitWakes ==
    /\ prog = "ratelimit"
    /\ \E caller \in Callers :
          /\ call.pc[caller] = "waiting"
          /\ call.clock >= call.wakeAt[caller]
          /\ call' = issue(call, caller)
    /\ onlyCall

\* the response (or the failure) of the request arrives
KalshiResponds ==
    /\ prog = "ratelimit"
    /\ \E caller \in Callers :
          /\ call.pc[caller] = "fetching"
          /\ call' = [call EXCEPT !.pc[caller] = "idle"]
    /\ onlyCall

\* time passes, unless a timer is due
RateClock ==
    /\ prog = "ratelimit"
    /\ call.clock < MaxRateClock
    /\ \A caller \in Callers :
          call.pc[caller] = "waiting" => call.clock < call.wakeAt[caller]
    /\ call' = [call EXCEPT !.clock = @ + 1]
    /\ onlyCall

NextRateLimit == KalshiFetch \/ RateLimitWakes \/ KalshiResponds \/ RateClock

SpecRateLimit == InitRateLimit /\ [][NextRateLimit]_vars

\* C40: no two requests to the Kalshi API leave less than
\* KALSHI_RATE_LIMIT_MS apart, the scan and the main loop calling at once
\* included
C40_RequestsRateLimitApart ==
    (prog = "ratelimit" /\ call.minGap # None)
        => call.minGap[1] >= KalshiRateLimitMs

=============================================================================
